---- MODULE Spec2Model ----
(***************************************************************************)
(* Model of the AsyncContext library: the Context class, a wrapper around  *)
(* Node's AsyncLocalStorage (core/context.ts), and the per-request         *)
(* middleware of core/integrations/express.ts.                             *)
(*                                                                         *)
(* JavaScript objects live on a heap of cells addressed by integers, so    *)
(* that aliasing (two references to one object) is part of the state.      *)
(* The runtime keeps one "active store" register; AsyncLocalStorage.run    *)
(* sets it for the duration of a callback and restores it afterwards, and  *)
(* a continuation registered at a suspension point captures it.            *)
(***************************************************************************)
EXTENDS Integers, Sequences, FiniteSets, TLC

\* ------------------------------------------------------------------ bounds
MaxAddr == 9        \* heap cells
MaxScopes == 2      \* scopes created in one behaviour of SpecScopes
MaxSteps == 3       \* store operations in one behaviour of Spec
MaxScopeSteps == 1  \* store operations in one behaviour of SpecScopes
MaxQueue == 1       \* continuations pending at one time
MaxDerive == 2      \* scopes created in one behaviour of SpecDerive
MaxDeriveSteps == 2 \* store operations in one behaviour of SpecDerive
MaxMeasure == 2     \* measure calls in one behaviour of SpecMeasure
MaxAppend == 3      \* measure calls in one behaviour of SpecAppend
MaxAppendScopes == 1 \* scopes created in one behaviour of SpecAppend
MaxLogs == 2        \* log calls in one behaviour of SpecLog
MaxEntries == 1     \* log calls in one behaviour of SpecEntry
MaxContextScopes == 2 \* scopes created in one behaviour of SpecContext
MaxContextSteps == 2 \* writes and log calls in one behaviour of SpecContext
MaxEnterScopes == 2   \* scopes created in one behaviour of SpecEnter
MaxEnterSteps == 3    \* store operations in one behaviour of SpecEnter
MaxChain == 5         \* objects nested in one another in SpecGraph
MaxGraphLogs == 2     \* log calls in one behaviour of SpecGraph
MaxChildLogs == 2     \* log calls in one behaviour of SpecChild
MaxTransports == 3    \* transports registered on one logger
MaxDeliveries == 2    \* log calls in one behaviour of SpecTransports
MaxRawLen == 4        \* characters of an environment value in SpecEnv
MaxClock == 2         \* the latest reading of the clock
MaxTimerSteps == 1    \* timer and log calls in one behaviour of SpecTimer

\* ------------------------------------------------------------------ values
\* A JavaScript value is a pair <<tag, payload>>.
Undef == <<"undef", 0>>
Null == <<"null", 0>>
Num(n) == <<"num", n>>
Bool(b) == <<"bool", IF b THEN 1 ELSE 0>>
Ref(a) == <<"ref", a>>
\* PerformanceEntry {name, ..., error?}: name n, e = 1 when it carries an error
Entry(n, e) == <<"entry", n, e>>

IsRef(v) == v[1] = "ref"

NoStore == 0
Addr == 1..MaxAddr

\* the empty property map
NoProps == <<>>

FreeCell == [kind |-> "free", props |-> NoProps, items |-> <<>>]
ObjCell(p) == [kind |-> "obj", props |-> p, items |-> <<>>]
ArrCell(s) == [kind |-> "arr", props |-> NoProps, items |-> s]

\* { ...f, ...g } and Object.assign(f, g): the keys of both, g winning
Spread(f, g) ==
  [k \in (DOMAIN f) \cup (DOMAIN g) |-> IF k \in DOMAIN g THEN g[k] ELSE f[k]]

\* delete f[k]
Delete(f, k) == [j \in (DOMAIN f) \ {k} |-> f[j]]

\* obj[k] = v
Put(f, k, v) == [j \in (DOMAIN f) \cup {k} |-> IF j = k THEN v ELSE f[j]]

\* ------------------------------------------------------------------ inputs
\* caller-owned objects that exist before any scope is created
SeedAddr == 1       \* a seed / initial store object   { options: <bag 2> }
SeedBagAddr == 2    \* the object nested in the seed   { x: 0, z: 0 }
OptsAddr == 3       \* an options argument             { x: 1 }
Opts2Addr == 4      \* another options argument        { x: 2, y: 2 }

InitHeap ==
  [a \in Addr |->
     CASE a = SeedAddr -> ObjCell([k \in {"options"} |-> Ref(SeedBagAddr)])
       [] a = SeedBagAddr -> ObjCell([k \in {"x", "z"} |-> Num(0)])
       [] a = OptsAddr -> ObjCell([k \in {"x"} |-> Num(1)])
       [] a = Opts2Addr -> ObjCell([k \in {"x", "y"} |-> Num(2)])
       [] OTHER -> FreeCell]

\* object literals a caller passes as initial store, overlay or merge object
Literals ==
  { NoProps,
    [k \in {"a"} |-> Num(1)],
    [k \in {"a"} |-> Undef],
    [k \in {"a", "options"} |-> IF k = "a" THEN Num(2) ELSE Null] }

\* the values given to Context.runWith
Overlays ==
  { NoProps,
    [k \in {"a", "options"} |-> IF k = "a" THEN Num(2) ELSE Null] }

VARIABLES
  heap,      \* the object heap: Addr -> cell
  active,    \* AsyncLocalStorage's current store: an address or NoStore
  stack,     \* the synchronous call stack of callbacks being executed
  queue,     \* continuations registered at suspension points, not yet resumed
  res,       \* outcome of the last call: [op, err, ret]
  scopes,    \* the scopes created so far: <<[store, parent, kind], ...>>
  lastWrite, \* the last addValue and the store it went to, until overwritten
  snaps,     \* the objects Context.snapshot has returned
  steps,     \* number of store operations still to be performed
  pending,   \* measure calls whose work returned a promise not yet settled
  logger,    \* the Logger instance: its level and its options
  sent,      \* the entries log has handed to its transports, in order
  done,      \* the measure calls whose work has completed, in order
  childLogger, \* the Logger that logger.child has returned
  invoked,   \* the invocations of the transports, in order
  timer      \* the closure that logger.startTimer has returned

vars ==
  <<heap, active, stack, queue, res, scopes, lastWrite, snaps, steps,
    pending, logger, sent, done, childLogger, invoked, timer>>

\* ------------------------------------------------------------ heap helpers
FreeAddrs(h) == {a \in Addr : h[a].kind = "free"}

\* the address the next allocation gets
Alloc(h) == CHOOSE a \in FreeAddrs(h) : \A b \in FreeAddrs(h) : a <= b

\* Object.prototype.hasOwnProperty.call(obj, k)
Own(h, s, k) == k \in DOMAIN h[s].props

\* obj[k]
Get(h, s, k) == IF Own(h, s, k) THEN h[s].props[k] ELSE Undef

\* a value used as a condition
Truthy(v) == v \notin {Undef, Null, Num(0), Bool(FALSE), <<"str", "">>}

\* existing && typeof existing === "object" && !Array.isArray(existing)
IsPlainObject(h, v) == IsRef(v) /\ h[v[2]].kind = "obj"

\* Array.isArray(v)
IsArray(h, v) == IsRef(v) /\ h[v[2]].kind = "arr"

\* outcome of a call: the heap it leaves, the failure it raised, its result
Out(h, err, ret) == [heap |-> h, err |-> err, ret |-> ret]

\* ------------------------------------------------- Context: the operations
\* Each operation is a function of the heap h and the active store s
\* (NoStore when no scope is active) and yields Out(heap, err, ret).

\* Context.getStore
getStore(s) == IF s = NoStore THEN Undef ELSE Ref(s)

\* Context.requireStore
requireStore(h, s) ==
  IF s = NoStore THEN Out(h, "NoActiveScope", Undef) ELSE Out(h, "none", Ref(s))

\* a snapshot that is the store itself, not a copy
snapshotAlias(h, s) ==
  IF s = NoStore THEN Out(h, "none", Undef) ELSE Out(h, "none", Ref(s))

\* Context.snapshot: { ...contextObject }
snapshot(h, s) ==
  IF s = NoStore THEN Out(h, "none", Undef)
  ELSE LET n == Alloc(h)
       IN Out([h EXCEPT ![n] = ObjCell(h[s].props)], "none", Ref(n))

\* a getValue that substitutes the default for a stored undefined
getValueNullish(h, s, key, defaultValue) ==
  IF s = NoStore THEN defaultValue
  ELSE IF Own(h, s, key) /\ h[s].props[key] # Undef THEN h[s].props[key]
  ELSE defaultValue

\* Context.getValue
getValue(h, s, key, defaultValue) ==
  IF s = NoStore THEN defaultValue
  ELSE IF Own(h, s, key) THEN h[s].props[key]
  ELSE defaultValue

\* Context.requireValue
requireValue(h, s, key) ==
  IF s = NoStore THEN Out(h, "NoActiveScope", Undef)
  ELSE IF ~Own(h, s, key) THEN Out(h, "MissingValue", Undef)
  ELSE Out(h, "none", h[s].props[key])

\* Context.has
has(h, s, key) == Bool(s # NoStore /\ Own(h, s, key))

\* a setDefault that takes a key holding undefined for a missing key
setDefaultUndefined(h, s, key, value) ==
  IF s = NoStore THEN Out(h, "NoActiveScope", Undef)
  ELSE LET h2 == IF Get(h, s, key) = Undef
                 THEN [h EXCEPT ![s].props = Put(@, key, value)]
                 ELSE h
       IN Out(h2, "none", Get(h2, s, key))

\* Context.setDefault
setDefault(h, s, key, value) ==
  IF s = NoStore THEN Out(h, "NoActiveScope", Undef)
  ELSE LET h2 == IF ~Own(h, s, key)
                 THEN [h EXCEPT ![s].props = Put(@, key, value)]
                 ELSE h
       IN Out(h2, "none", Get(h2, s, key))

\* Context.reset
reset(h, s) ==
  IF s = NoStore THEN Out(h, "NoActiveScope", Undef)
  ELSE Out([h EXCEPT ![s].props = NoProps], "none", Ref(s))

\* Context.addValue
addValue(h, s, key, value) ==
  IF s = NoStore THEN Out(h, "NoActiveScope", Undef)
  ELSE Out([h EXCEPT ![s].props = Put(@, key, value)], "none", Ref(s))

\* Context.addObjectValue: Object.assign(contextObject, object)
addObjectValue(h, s, object) ==
  IF s = NoStore THEN Out(h, "NoActiveScope", Undef)
  ELSE Out([h EXCEPT ![s].props = Spread(@, object)], "none", Ref(s))

\* an addOptions that stores the caller's object itself as the new bag
addOptionsAlias(h, s, options, key) ==
  IF s = NoStore THEN Out(h, "NoActiveScope", Undef)
  ELSE LET existing == Get(h, s, key)
       IN IF existing = Undef
          THEN Out([h EXCEPT ![s].props = Put(@, key, Ref(options))],
                   "none", Ref(s))
          ELSE IF IsPlainObject(h, existing)
          THEN Out([h EXCEPT ![existing[2]].props =
                               Spread(@, h[options].props)],
                   "none", Ref(s))
          ELSE Out(h, "KeyNotObject", Undef)

\* Context.addOptions; options is the address of the caller's object
addOptions(h, s, options, key) ==
  IF s = NoStore THEN Out(h, "NoActiveScope", Undef)
  ELSE LET existing == Get(h, s, key)
       IN IF existing = Undef
          THEN LET n == Alloc(h)
                   h1 == [h EXCEPT ![n] = ObjCell(h[options].props)]
               IN Out([h1 EXCEPT ![s].props = Put(@, key, Ref(n))],
                      "none", Ref(s))
          ELSE IF IsPlainObject(h, existing)
          THEN Out([h EXCEPT ![existing[2]].props =
                               Spread(@, h[options].props)],
                   "none", Ref(s))
          ELSE Out(h, "KeyNotObject", Undef)

\* a remove that does nothing, silently, when no scope is active
removeSilent(h, s, key) ==
  IF s = NoStore THEN Out(h, "none", Undef)
  ELSE IF Own(h, s, key)
  THEN Out([h EXCEPT ![s].props = Delete(@, key)], "none", Ref(s))
  ELSE Out(h, "none", Ref(s))

\* Context.remove
remove(h, s, key) ==
  IF s = NoStore THEN Out(h, "NoActiveScope", Undef)
  ELSE IF Own(h, s, key)
  THEN Out([h EXCEPT ![s].props = Delete(@, key)], "none", Ref(s))
  ELSE Out(h, "none", Ref(s))

\* a safeRemove that accepts a missing key
safeRemoveLenient(h, s, key) ==
  IF s = NoStore THEN Out(h, "NoActiveScope", Undef)
  ELSE Out([h EXCEPT ![s].props = Delete(@, key)], "none", Ref(s))

\* Context.safeRemove
safeRemove(h, s, key) ==
  IF s = NoStore THEN Out(h, "NoActiveScope", Undef)
  ELSE IF ~Own(h, s, key) THEN Out(h, "RemovalNotFound", Undef)
  ELSE Out([h EXCEPT ![s].props = Delete(@, key)], "none", Ref(s))

\* a recording that wraps whatever the key holds, undefined included
recordPerformanceWrap(h, s, entry, key, mode) ==
  IF s = NoStore THEN h
  ELSE IF mode = "overwrite" THEN [h EXCEPT ![s].props = Put(@, key, entry)]
  ELSE LET existing == Get(h, s, key)
       IN IF IsArray(h, existing)
          THEN [h EXCEPT ![existing[2]].items = Append(@, entry)]
          ELSE LET n == Alloc(h)
               IN [[h EXCEPT ![n] = ArrCell(<<existing, entry>>)]
                      EXCEPT ![s].props = Put(@, key, Ref(n))]

\* a recording that starts a new list at every call
recordPerformanceReplace(h, s, entry, key, mode) ==
  IF s = NoStore THEN h
  ELSE IF mode = "overwrite" THEN [h EXCEPT ![s].props = Put(@, key, entry)]
  ELSE LET existing == Get(h, s, key)
           n == Alloc(h)
           list == IF existing = Undef \/ IsArray(h, existing) THEN <<entry>>
                   ELSE <<existing, entry>>
       IN [[h EXCEPT ![n] = ArrCell(list)]
              EXCEPT ![s].props = Put(@, key, Ref(n))]

\* Context.recordPerformance; yields the heap
recordPerformance(h, s, entry, key, mode) ==
  IF s = NoStore THEN h
  ELSE IF mode = "overwrite" THEN [h EXCEPT ![s].props = Put(@, key, entry)]
  ELSE LET existing == Get(h, s, key)
       IN IF IsArray(h, existing)
          THEN [h EXCEPT ![existing[2]].items = Append(@, entry)]
          ELSE LET n == Alloc(h)
                   list == IF existing = Undef THEN <<entry>>
                           ELSE <<existing, entry>>
               IN [[h EXCEPT ![n] = ArrCell(list)]
                      EXCEPT ![s].props = Put(@, key, Ref(n))]

\* a measure that requires an active store
measureRequire(h, s, name, work, key, mode) ==
  IF s = NoStore THEN Out(h, "NoActiveScope", Undef)
  ELSE Out(recordPerformance(h, s, Entry(name, 0), key, mode), "none",
           work.val)

\* Context.measure with synchronous work; work is [threw, val]: whether the
\* callback threw, and the value it returned or threw
measure(h, s, name, work, key, mode) ==
  LET entry == Entry(name, IF work.threw /\ Truthy(work.val) THEN 1 ELSE 0)
      h2 == recordPerformance(h, s, entry, key, mode)
  IN Out(h2, IF work.threw THEN "thrown" ELSE "none", work.val)

\* ------------------------------------------------------------------ Logger
\* strings: a string is <<"str", s>>
Str(s) == <<"str", s>>
\* an Error object with message m
Err(m) == <<"error", m>>

LEVEL_VALUES ==
  [l \in {"trace", "debug", "info", "warn", "error", "fatal"} |->
     CASE l = "trace" -> 10 [] l = "debug" -> 20 [] l = "info" -> 30
       [] l = "warn" -> 40 [] l = "error" -> 50 [] l = "fatal" -> 60]

DEFAULT_REDACT_PLACEHOLDER == Str("[REDACTED]")

DEFAULT_REDACT_FIELDS ==
  { "password", "pass", "pwd", "secret", "token", "access_token",
    "refresh_token", "id_token", "authorization", "cookie", "set_cookie",
    "session", "sessionid", "api_key", "apikey", "x_api_key",
    "client_secret", "private_key", "signature", "jwt", "bearer", "csrf",
    "xsrf" }

\* the characters of the strings that are used as key names
Chars(s) ==
  CASE s = "password" -> <<"p", "a", "s", "s", "w", "o", "r", "d">>
    [] s = "pass" -> <<"p", "a", "s", "s">>
    [] s = "pwd" -> <<"p", "w", "d">>
    [] s = "secret" -> <<"s", "e", "c", "r", "e", "t">>
    [] s = "token" -> <<"t", "o", "k", "e", "n">>
    [] s = "access_token" -> <<"a", "c", "c", "e", "s", "s", "_", "t", "o", "k", "e", "n">>
    [] s = "refresh_token" -> <<"r", "e", "f", "r", "e", "s", "h", "_", "t", "o", "k", "e", "n">>
    [] s = "id_token" -> <<"i", "d", "_", "t", "o", "k", "e", "n">>
    [] s = "authorization" -> <<"a", "u", "t", "h", "o", "r", "i", "z", "a", "t", "i", "o", "n">>
    [] s = "cookie" -> <<"c", "o", "o", "k", "i", "e">>
    [] s = "set_cookie" -> <<"s", "e", "t", "_", "c", "o", "o", "k", "i", "e">>
    [] s = "session" -> <<"s", "e", "s", "s", "i", "o", "n">>
    [] s = "sessionid" -> <<"s", "e", "s", "s", "i", "o", "n", "i", "d">>
    [] s = "api_key" -> <<"a", "p", "i", "_", "k", "e", "y">>
    [] s = "apikey" -> <<"a", "p", "i", "k", "e", "y">>
    [] s = "x_api_key" -> <<"x", "_", "a", "p", "i", "_", "k", "e", "y">>
    [] s = "client_secret" -> <<"c", "l", "i", "e", "n", "t", "_", "s", "e", "c", "r", "e", "t">>
    [] s = "private_key" -> <<"p", "r", "i", "v", "a", "t", "e", "_", "k", "e", "y">>
    [] s = "signature" -> <<"s", "i", "g", "n", "a", "t", "u", "r", "e">>
    [] s = "jwt" -> <<"j", "w", "t">>
    [] s = "bearer" -> <<"b", "e", "a", "r", "e", "r">>
    [] s = "csrf" -> <<"c", "s", "r", "f">>
    [] s = "xsrf" -> <<"x", "s", "r", "f">>
    [] s = "Pwd" -> <<"P", "w", "d">>
    [] s = "p-wd" -> <<"p", "-", "w", "d">>
    [] s = "PIN" -> <<"P", "I", "N">>
    [] s = "pin" -> <<"p", "i", "n">>
    [] s = "id" -> <<"i", "d">>
    [] s = "a" -> <<"a">>
    [] s = "items" -> <<"i", "t", "e", "m", "s">>
    [] s = "nested" -> <<"n", "e", "s", "t", "e", "d">>
    [] s = "data" -> <<"d", "a", "t", "a">>
    [] s = "x" -> <<"x">>
    [] s = "__" -> <<"_", "_">>
    [] s = "level" -> <<"l", "e", "v", "e", "l">>
    [] s = "levelValue" -> <<"l", "e", "v", "e", "l", "V", "a", "l", "u", "e">>
    [] s = "message" -> <<"m", "e", "s", "s", "a", "g", "e">>
    [] s = "timestamp" -> <<"t", "i", "m", "e", "s", "t", "a", "m", "p">>
    [] s = "logger" -> <<"l", "o", "g", "g", "e", "r">>
    [] s = "pid" -> <<"p", "i", "d">>
    [] s = "hostname" -> <<"h", "o", "s", "t", "n", "a", "m", "e">>
    [] s = "error" -> <<"e", "r", "r", "o", "r">>
    [] s = "bindings" -> <<"b", "i", "n", "d", "i", "n", "g", "s">>
    [] s = "context" -> <<"c", "o", "n", "t", "e", "x", "t">>
    [] s = "value" -> <<"v", "a", "l", "u", "e">>
    [] s = "name" -> <<"n", "a", "m", "e">>
    [] s = "stack" -> <<"s", "t", "a", "c", "k">>
    [] s = "details" -> <<"d", "e", "t", "a", "i", "l", "s">>
    [] s = "ctx" -> <<"c", "t", "x">>
    [] s = "service" -> <<"s", "e", "r", "v", "i", "c", "e">>
    [] s = "options" -> <<"o", "p", "t", "i", "o", "n", "s">>
    [] s = "perf" -> <<"p", "e", "r", "f">>
    [] s = "b" -> <<"b">>
    [] s = "instance_id" -> <<"i", "n", "s", "t", "a", "n", "c", "e", "_", "i", "d">>
    [] s = "y" -> <<"y">>
    [] s = "z" -> <<"z">>
    [] s = "cause" -> <<"c", "a", "u", "s", "e">>
    [] s = "job" -> <<"j", "o", "b">>
    [] s = "duration_ms" -> <<"d", "u", "r", "a", "t", "i", "o", "n", "_", "m", "s">>

\* String.prototype.toLowerCase, one character
ToLower(c) ==
  CASE c = "A" -> "a" [] c = "B" -> "b" [] c = "C" -> "c" [] c = "D" -> "d"
    [] c = "E" -> "e" [] c = "F" -> "f" [] c = "G" -> "g" [] c = "H" -> "h"
    [] c = "I" -> "i" [] c = "J" -> "j" [] c = "K" -> "k" [] c = "L" -> "l"
    [] c = "M" -> "m" [] c = "N" -> "n" [] c = "O" -> "o" [] c = "P" -> "p"
    [] c = "Q" -> "q" [] c = "R" -> "r" [] c = "S" -> "s" [] c = "T" -> "t"
    [] c = "U" -> "u" [] c = "V" -> "v" [] c = "W" -> "w" [] c = "X" -> "x"
    [] c = "Y" -> "y" [] c = "Z" -> "z"
    [] OTHER -> c

\* the characters the pattern [^a-z0-9] leaves in place
AlphaNum ==
  { "a", "b", "c", "d", "e", "f", "g", "h", "i", "j", "k", "l", "m", "n",
    "o", "p", "q", "r", "s", "t", "u", "v", "w", "x", "y", "z",
    "0", "1", "2", "3", "4", "5", "6", "7", "8", "9" }

\* normalizeRedactionKey: key.toLowerCase().replace(/[^a-z0-9]/g, ""), as
\* the sequence of the characters that remain
normalizeRedactionKey(key) ==
  LET chars == Chars(key)
      lower == [i \in DOMAIN chars |-> ToLower(chars[i])]
  IN SelectSeq(lower, LAMBDA c : c \in AlphaNum)

\* the normalized names of DEFAULT_REDACT_FIELDS
DefaultKeySet == {normalizeRedactionKey(f) : f \in DEFAULT_REDACT_FIELDS}

\* buildRedactionKeySet: the non-empty normalized names of the default
\* fields, when included, and of the given fields
buildRedactionKeySet(fields, includeDefaults) ==
  ((IF includeDefaults THEN DefaultKeySet ELSE {})
     \cup {normalizeRedactionKey(f) : f \in fields}) \ {<<>>}

\* the order in which the keys of an object are enumerated
KeyOrder ==
  << "a", "b", "id", "pwd", "Pwd", "p-wd", "pin", "PIN", "x", "nested",
     "items", "options", "perf", "instance_id", "service", "name", "message",
     "stack", "details", "value", "data", "error", "y", "z", "cause", "job",
     "duration_ms" >>

Keys(f) == SelectSeq(KeyOrder, LAMBDA k : k \in DOMAIN f)

\* an Error: a value <<"error", m>>, which has no cause, or an object of
\* kind "err" with a message and possibly a cause
IsError(h, v) == v[1] = "error" \/ (IsRef(v) /\ h[v[2]].kind = "err")

\* what stands in a normalized value for the part whose computation never
\* returns: the recursion exhausts the call stack and a RangeError is thrown
Thrown == <<"throw", "RangeError">>

\* a RangeError was thrown while the value was computed
RECURSIVE Throws(_)
Throws(v) ==
  \/ v = Thrown
  \/ v[1] = "obj" /\ \E k \in DOMAIN v[2] : Throws(v[2][k])
  \/ v[1] = "arr" /\ \E i \in DOMAIN v[2] : Throws(v[2][i])

\* normalizeValue(value, seen): yields the normalized value, a tree
\* <<"obj", fields>> or <<"arr", items>> or a primitive, and the set seen.
\* calls is the call stack, as far as it matters: the Errors whose
\* serializeError call has not returned yet.
RECURSIVE normalizeValue(_, _, _, _)
RECURSIVE normalizeFields(_, _, _, _, _)
RECURSIVE normalizeItems(_, _, _, _)
RECURSIVE serializeErrorObject(_, _, _)

\* for (const [key, item] of Object.entries(value)) out[key] = ...
normalizeFields(h, f, keys, seen, calls) ==
  IF keys = <<>> THEN [val |-> NoProps, seen |-> seen]
  ELSE LET one == normalizeValue(h, f[Head(keys)], seen, calls)
           rest == normalizeFields(h, f, Tail(keys), one.seen, calls)
       IN [val |-> Put(rest.val, Head(keys), one.val), seen |-> rest.seen]

\* value.map((item) => normalizeValue(item, seen))
normalizeItems(h, items, seen, calls) ==
  IF items = <<>> THEN [val |-> <<>>, seen |-> seen]
  ELSE LET one == normalizeValue(h, Head(items), seen, calls)
           rest == normalizeItems(h, Tail(items), one.seen, calls)
       IN [val |-> <<one.val>> \o rest.val, seen |-> rest.seen]

\* the SerializedError of an Error without a cause: name, message, stack
serializedErrorOf(error) ==
  <<"obj", [k \in {"name", "message", "stack"} |->
              CASE k = "name" -> Str("Error")
                [] k = "message" -> Str(error[2])
                [] k = "stack" -> Str("stack")]>>

\* serializeError, the branch of an Error, for the Error object at address
\* a: the cause is normalized with a visited set of its own.  A call for an
\* Error whose call is still on the stack does what that call did, and so
\* on without end.
serializeErrorObject(h, a, calls) ==
  IF a \in calls THEN Thrown
  ELSE LET error == h[a].props
           names == {"name", "message", "stack"}
                      \cup (IF "cause" \in DOMAIN error /\ error.cause # Undef
                            THEN {"cause"} ELSE {})
       IN <<"obj", [k \in names |->
                      CASE k = "name" -> Str("Error")
                        [] k = "message" -> error.message
                        [] k = "stack" -> Str("stack")
                        [] k = "cause" ->
                             normalizeValue(h, error.cause, {},
                                            calls \cup {a}).val]>>

normalizeValue(h, value, seen, calls) ==
  IF IsRef(value)
  THEN IF value[2] \in seen THEN [val |-> Str("[Circular]"), seen |-> seen]
       ELSE LET cell == h[value[2]]
                seen1 == seen \cup {value[2]}
            IN IF cell.kind = "err"
               THEN [val |-> serializeErrorObject(h, value[2], calls),
                     seen |-> seen1]
               ELSE IF cell.kind \in {"arr", "set"}
               THEN LET r == normalizeItems(h, cell.items, seen1, calls)
                    IN [val |-> <<"arr", r.val>>, seen |-> r.seen]
               ELSE LET r == normalizeFields(h, cell.props, Keys(cell.props),
                                             seen1, calls)
                    IN [val |-> <<"obj", r.val>>, seen |-> r.seen]
  ELSE IF value[1] = "error"
  THEN [val |-> serializedErrorOf(value), seen |-> seen]
  ELSE [val |-> value, seen |-> seen]

\* serializeError
serializeError(h, error) ==
  IF ~Truthy(error) THEN Undef
  ELSE IF error[1] = "error" THEN serializedErrorOf(error)
  ELSE IF IsError(h, error) THEN serializeErrorObject(h, error[2], {})
  ELSE IF error[1] = "str" THEN <<"obj", [k \in {"message"} |-> error]>>
  ELSE <<"obj", [k \in {"message", "details"} |->
                   IF k = "message" THEN Str("Non-Error value thrown")
                   ELSE normalizeValue(h, error, {}, {}).val]>>

\* isRecord: typeof value === "object", not null, not an array
isRecord(h, value) ==
  \/ IsRef(value) /\ h[value[2]].kind \in {"obj", "map", "set", "err"}
  \/ value[1] = "error"

\* normalizeData
normalizeData(h, value) ==
  IF value = Undef THEN Undef
  ELSE IF isRecord(h, value) THEN normalizeValue(h, value, {}, {}).val
  ELSE IF IsArray(h, value)
  THEN <<"obj", [k \in {"items"} |-> normalizeValue(h, value, {}, {}).val]>>
  ELSE <<"obj", [k \in {"value"} |-> normalizeValue(h, value, {}, {}).val]>>

\* an argument list read as const [first, second, third] = args
Arg(args, i) == IF i <= Len(args) THEN args[i] ELSE Undef

Parts(message, data, error) ==
  [message |-> message, data |-> data, error |-> error]

\* a dispatch that never looks for an Error in second position after a
\* string
extractPartsDataFirst(h, args) ==
  LET first == Arg(args, 1)
      second == Arg(args, 2)
      third == Arg(args, 3)
  IN IF Len(args) = 0 THEN Parts(Undef, Undef, Undef)
     ELSE IF first[1] = "str"
     THEN Parts(first, normalizeData(h, second), serializeError(h, third))
     ELSE IF IsError(h, first)
     THEN IF second[1] = "str"
          THEN Parts(second, normalizeData(h, third), serializeError(h, first))
          ELSE Parts(Undef, normalizeData(h, second), serializeError(h, first))
     ELSE Parts(IF second[1] = "str" THEN second ELSE Undef,
                normalizeData(h, first),
                IF IsError(h, second) THEN serializeError(h, second)
                ELSE serializeError(h, third))

\* extractParts
extractParts(h, args) ==
  LET first == Arg(args, 1)
      second == Arg(args, 2)
      third == Arg(args, 3)
  IN IF Len(args) = 0 THEN Parts(Undef, Undef, Undef)
     ELSE IF first[1] = "str"
     THEN IF IsError(h, second)
          THEN Parts(first, normalizeData(h, third), serializeError(h, second))
          ELSE Parts(first, normalizeData(h, second), serializeError(h, third))
     ELSE IF IsError(h, first)
     THEN IF second[1] = "str"
          THEN Parts(second, normalizeData(h, third), serializeError(h, first))
          ELSE Parts(Undef, normalizeData(h, second), serializeError(h, first))
     ELSE Parts(IF second[1] = "str" THEN second ELSE Undef,
                normalizeData(h, first),
                IF IsError(h, second) THEN serializeError(h, second)
                ELSE serializeError(h, third))

\* item && typeof item === "object", of a normalized value
IsNode(v) == v[1] \in {"obj", "arr"}

\* a visit that does not go into arrays
RECURSIVE visitNoArrays(_, _, _)
visitNoArrays(node, keySet, placeholder) ==
  IF node[1] = "obj"
  THEN <<"obj", [key \in DOMAIN node[2] |->
                   IF normalizeRedactionKey(key) \in keySet THEN placeholder
                   ELSE visitNoArrays(node[2][key], keySet, placeholder)]>>
  ELSE node

\* applyKeyNameRedaction: the visit of one node.  The entry is made of
\* fresh normalized copies, so no node is met twice and the effect of the
\* in-place assignments is the tree this yields.
RECURSIVE visit(_, _, _)
visit(node, keySet, placeholder) ==
  IF node[1] = "arr"
  THEN <<"arr", [i \in DOMAIN node[2] |->
                   visit(node[2][i], keySet, placeholder)]>>
  ELSE IF node[1] = "obj"
  THEN <<"obj", [key \in DOMAIN node[2] |->
                   IF normalizeRedactionKey(key) \in keySet THEN placeholder
                   ELSE visit(node[2][key], keySet, placeholder)]>>
  ELSE node

applyKeyNameRedaction(value, keySet, placeholder) ==
  IF keySet = {} THEN value ELSE visit(value, keySet, placeholder)

\* Number(head) for a path segment; -1 stands for a result that is not an
\* index
NumberOf(head) ==
  CASE head = "0" -> 0 [] head = "1" -> 1 [] head = "2" -> 2 [] OTHER -> -1

\* redactPath; the element of index i of a JavaScript array is items[i + 1]
RECURSIVE redactPath(_, _, _)
redactPath(target, parts, placeholder) ==
  IF parts = <<>> THEN target
  ELSE
    LET head == Head(parts)
        tail == Tail(parts)
        into(v) == IF IsNode(v) THEN redactPath(v, tail, placeholder) ELSE v
    IN IF head = "*"
       THEN IF target[1] = "arr"
            THEN <<"arr", [i \in DOMAIN target[2] |->
                     IF tail = <<>> THEN placeholder ELSE into(target[2][i])]>>
            ELSE <<"obj", [k \in DOMAIN target[2] |->
                     IF tail = <<>> THEN placeholder ELSE into(target[2][k])]>>
       ELSE IF tail = <<>>
       THEN IF target[1] = "arr"
            THEN LET index == NumberOf(head)
                 IN IF index >= 0 /\ index < Len(target[2])
                    THEN <<"arr", [target[2] EXCEPT ![index + 1] = placeholder]>>
                    ELSE target
            ELSE <<"obj", Put(target[2], head, placeholder)>>
       ELSE IF target[1] = "arr"
       THEN LET index == NumberOf(head)
            IN IF index >= 0 /\ index < Len(target[2])
                  /\ IsNode(target[2][index + 1])
               THEN <<"arr", [target[2] EXCEPT ![index + 1] = into(@)]>>
               ELSE target
       ELSE IF head \in DOMAIN target[2] /\ IsNode(target[2][head])
       THEN <<"obj", [target[2] EXCEPT ![head] = into(@)]>>
       ELSE target

\* applyRedaction: the paths one after the other; a path is the sequence of
\* the segments that path.split(".") yields, filter(Boolean) drops the
\* empty ones
RECURSIVE applyRedaction(_, _, _)
applyRedaction(value, paths, placeholder) ==
  IF paths = <<>> THEN value
  ELSE LET parts == SelectSeq(Head(paths), LAMBDA p : p # "")
       IN applyRedaction(redactPath(value, parts, placeholder), Tail(paths),
                         placeholder)

\* the objects of the heap that a value holds by reference: a normalized
\* value is made of fresh copies only and holds none
RECURSIVE Held(_)
Held(v) ==
  IF IsRef(v) THEN {v[2]}
  ELSE IF v[1] \in {"obj", "arr"}
  THEN UNION {Held(v[2][k]) : k \in DOMAIN v[2]}
  ELSE {}

\* applyKeyNameRedaction, in objects of the heap: the objects the visit
\* reaches from those in todo, which are those it reaches through keys it
\* does not mask
RECURSIVE visited(_, _, _, _)
visited(h, todo, keySet, seen) ==
  IF todo \subseteq seen THEN seen
  ELSE LET a == CHOOSE x \in todo \ seen : TRUE
           cell == h[a]
           next == IF cell.kind = "arr"
                   THEN {cell.items[i][2] : i \in {j \in DOMAIN cell.items :
                                                     IsRef(cell.items[j])}}
                   ELSE {cell.props[k][2] : k \in {j \in DOMAIN cell.props :
                            /\ IsRef(cell.props[j])
                            /\ normalizeRedactionKey(j) \notin keySet}}
       IN visited(h, todo \cup next, keySet, seen \cup {a})

\* record[key] = placeholder, for every masked key of every object of the
\* heap that the visit reaches
maskCells(h, reached, keySet, placeholder) ==
  [a \in DOMAIN h |->
     IF a \in reached /\ h[a].kind # "arr"
     THEN [h[a] EXCEPT !.props =
             [k \in DOMAIN @ |->
                IF normalizeRedactionKey(k) \in keySet THEN placeholder
                ELSE @[k]]]
     ELSE h[a]]

\* applyKeyNameRedaction: the heap it leaves
applyKeyNameRedactionCells(h, value, keySet, placeholder) ==
  IF keySet = {} \/ Held(value) = {} THEN h
  ELSE maskCells(h, visited(h, Held(visit(value, keySet, placeholder)),
                            keySet, {}),
                 keySet, placeholder)

\* redactPath: the assignments target[head] = placeholder it makes in
\* objects of the heap, each <<address, key or index>>
RECURSIVE pathWrites(_, _, _)
pathWrites(h, target, parts) ==
  IF parts = <<>> \/ ~(IsRef(target) \/ IsNode(target)) THEN {}
  ELSE
    LET head == Head(parts)
        tail == Tail(parts)
        isArray == IF IsRef(target) THEN h[target[2]].kind = "arr"
                   ELSE target[1] = "arr"
        kids == IF ~IsRef(target) THEN target[2]
                ELSE IF isArray THEN h[target[2]].items
                ELSE h[target[2]].props
        slots == IF head = "*" THEN DOMAIN kids
                 ELSE IF isArray THEN {NumberOf(head) + 1} \cap DOMAIN kids
                 ELSE {head}
    IN IF tail = <<>>
       THEN IF IsRef(target) THEN {<<target[2], k>> : k \in slots} ELSE {}
       ELSE UNION {pathWrites(h, kids[k], tail) : k \in slots \cap DOMAIN kids}

\* the heap after the assignments
writeCells(h, writes, placeholder) ==
  [a \in DOMAIN h |->
     LET slots == {w[2] : w \in {x \in writes : x[1] = a}}
     IN IF slots = {} THEN h[a]
        ELSE IF h[a].kind = "arr"
        THEN [h[a] EXCEPT !.items =
                [i \in DOMAIN @ |-> IF i \in slots THEN placeholder ELSE @[i]]]
        ELSE [h[a] EXCEPT !.props =
                [k \in DOMAIN @ \cup slots |->
                   IF k \in slots THEN placeholder ELSE @[k]]]]

\* applyRedaction: the heap it leaves
RECURSIVE applyRedactionCells(_, _, _, _)
applyRedactionCells(h, value, paths, placeholder) ==
  IF paths = <<>> \/ Held(value) = {} THEN h
  ELSE LET parts == SelectSeq(Head(paths), LAMBDA p : p # "")
       IN applyRedactionCells(
            writeCells(h, pathWrites(h, value, parts), placeholder),
            redactPath(value, parts, placeholder), Tail(paths), placeholder)

\* a pick that hands out the store itself when there is no allow-list
pickContextAlias(h, store, keys) ==
  IF keys = {} THEN Ref(store)
  ELSE LET snap == normalizeValue(h, Ref(store), {}, {}).val
       IN <<"obj", [key \in keys \cap DOMAIN snap[2] |-> snap[2][key]]>>

\* a pick that ignores the allow-list
pickContextAll(h, store, keys) ==
  normalizeValue(h, Ref(store), {}, {}).val

\* pickContext
pickContext(h, store, keys) ==
  LET snap == normalizeValue(h, Ref(store), {}, {}).val
  IN IF keys = {} THEN snap
     ELSE <<"obj", [key \in keys \cap DOMAIN snap[2] |-> snap[2][key]]>>

\* sample rates and random draws are counted in fractions of one:
\* SampleOne is the rate 1, and Math.random() yields one of
\* 0 .. SampleOne - 1
SampleOne == 4
Draws == 0..(SampleOne - 1)

\* a transport, a procedure (entry) => void: what identifies it, and what
\* it does when it is invoked: keep the entry as it is, change it, or throw
Transport(id, does) == [id |-> id, does |-> does]

\* createConsoleTransport: a transport of its own, which writes the entry
\* out; n tells it from the console transports made before
createConsoleTransport(n) == Transport(<<"console", n>>, "keep")

\* new Logger(options), for the Logger constructed after n others: the
\* options with their defaults filled in.  The bindings are kept normalized.
NewLogger(options, n) ==
  [ transports |->
      IF "transports" \in DOMAIN options /\ options.transports # <<>>
      THEN options.transports ELSE <<createConsoleTransport(n)>> ] @@
  options @@
  [ level |-> "info", name |-> Undef, bindings |-> <<"obj", NoProps>>,
    context |-> TRUE, contextKey |-> "context", contextKeys |-> {},
    redactDefaults |-> TRUE, redactFieldNames |-> {}, redactKeys |-> <<>>,
    redactPlaceholder |-> DEFAULT_REDACT_PLACEHOLDER, timestamp |-> TRUE,
    sampleRate |-> SampleOne, includePid |-> TRUE,
    includeHostname |-> FALSE ]

Logger(options) == NewLogger(options, 0)

\* the options a child takes from its parent when they are not given
InheritedOptions ==
  { "level", "name", "context", "contextKey", "contextKeys", "redactDefaults",
    "redactFieldNames", "redactKeys", "redactPlaceholder", "timestamp",
    "sampleRate", "includePid", "includeHostname" }

\* a child that keeps the parent's value of a key both have bound
childParentWins(h, lg, bindings, options, n) ==
  NewLogger(
    [bindings |-> <<"obj", Spread(normalizeData(h, bindings)[2],
                                  lg.bindings[2])>>,
     transports |-> lg.transports]
      @@ [k \in InheritedOptions |->
            IF k \in DOMAIN options THEN options[k] ELSE lg[k]],
    n)

\* Logger.child(bindings, options), for the Logger constructed after n
\* others
child(h, lg, bindings, options, n) ==
  LET normalized == normalizeData(h, bindings)
      merged == Spread(lg.bindings[2],
                       IF normalized = Undef THEN NoProps ELSE normalized[2])
      hasCustomTransport == "transports" \in DOMAIN options
      hasTransportOptions ==
        "format" \in DOMAIN options \/ "colors" \in DOMAIN options
      transports == IF hasCustomTransport THEN options.transports
                    ELSE IF hasTransportOptions THEN <<>>
                    ELSE lg.transports
  IN NewLogger(
       [bindings |-> <<"obj", merged>>, transports |-> transports]
         @@ [k \in InheritedOptions |->
               IF k \in DOMAIN options THEN options[k] ELSE lg[k]],
       n)

\* a filter that lets through only the levels above the minimum
isLevelEnabledAbove(lg, level) == LEVEL_VALUES[level] > LEVEL_VALUES[lg.level]

\* Logger.isLevelEnabled
isLevelEnabled(lg, level) == LEVEL_VALUES[level] >= LEVEL_VALUES[lg.level]

\* Logger.log, the sampling test: TRUE when the entry is dropped
sampledOut(lg, draw) == lg.sampleRate < SampleOne /\ draw > lg.sampleRate

\* Logger.log, the assembly of the entry before redaction, from the parts
\* extractParts yields: the fields are assigned in the order of the code, a
\* later assignment to the same name replacing an earlier one
assembleParts(h, s, lg, level, parts) ==
  LET hasData == parts.data # Undef /\ DOMAIN parts.data[2] # {}
      hasContext == lg.context /\ s # NoStore
      names == {"level", "levelValue", "message"}
                 \cup (IF lg.timestamp THEN {"timestamp"} ELSE {})
                 \cup (IF Truthy(lg.name) THEN {"logger"} ELSE {})
                 \cup (IF lg.includePid THEN {"pid"} ELSE {})
                 \cup (IF lg.includeHostname THEN {"hostname"} ELSE {})
                 \cup (IF hasData THEN {"data"} ELSE {})
                 \cup (IF parts.error # Undef THEN {"error"} ELSE {})
                 \cup (IF DOMAIN lg.bindings[2] # {} THEN {"bindings"} ELSE {})
                 \cup (IF hasContext THEN {lg.contextKey} ELSE {})
  IN <<"obj", [k \in names |->
                 CASE hasContext /\ k = lg.contextKey ->
                        pickContext(h, s, lg.contextKeys)
                   [] k = "bindings" -> lg.bindings
                   [] k = "error" -> parts.error
                   [] k = "data" -> parts.data
                   [] k = "hostname" -> Str("host")
                   [] k = "pid" -> Num(1)
                   [] k = "logger" -> lg.name
                   [] k = "timestamp" -> Str("now")
                   [] k = "message" -> parts.message
                   [] k = "levelValue" -> Num(LEVEL_VALUES[level])
                   [] k = "level" -> Str(level)]>>

assemble(h, s, lg, level, args) ==
  assembleParts(h, s, lg, level, extractParts(h, args))

\* Logger.log, the redaction of the assembled entry: name-based, then
\* path-based; the entry that goes to the transports, and the heap that the
\* assignments of the redaction leave
redact(h, lg, entry, redactionKeySet) ==
  [emit |-> TRUE,
   entry |-> applyRedaction(
               applyKeyNameRedaction(entry, redactionKeySet,
                                     lg.redactPlaceholder),
               lg.redactKeys, lg.redactPlaceholder),
   heap |-> applyRedactionCells(
              applyKeyNameRedactionCells(h, entry, redactionKeySet,
                                         lg.redactPlaceholder),
              applyKeyNameRedaction(entry, redactionKeySet,
                                    lg.redactPlaceholder),
              lg.redactKeys, lg.redactPlaceholder)]

\* Logger.log, after the level and sampling tests: the entry is Thrown when
\* the assembly throws, which ends the call
logEntry(h, lg, entry) ==
  IF Throws(entry) THEN [emit |-> FALSE, entry |-> Thrown, heap |-> h]
  ELSE redact(h, lg, entry,
              buildRedactionKeySet(lg.redactFieldNames, lg.redactDefaults))

\* Logger.log: whether an entry goes to the transports, the entry, and the
\* heap the call leaves
log(h, s, lg, level, args, draw) ==
  IF ~isLevelEnabled(lg, level) \/ sampledOut(lg, draw)
  THEN [emit |-> FALSE, entry |-> Undef, heap |-> h]
  ELSE logEntry(h, lg, assemble(h, s, lg, level, args))

\* what a transport that changes the entry leaves of it
Changed(entry) == <<"obj", Put(entry[2], "message", Str("changed"))>>

\* for (const transport of this.transports) transport(entry): the
\* invocations made, each with the entry as the transport received it, and
\* the error that ends the loop
RECURSIVE deliver(_, _)
deliver(transports, entry) ==
  IF transports = <<>> THEN [made |-> <<>>, err |-> "none"]
  ELSE LET t == Head(transports)
           call == [transport |-> t.id, entry |-> entry]
       IN IF t.does = "throw" THEN [made |-> <<call>>, err |-> "Error"]
          ELSE LET rest == deliver(Tail(transports),
                                   IF t.does = "change" THEN Changed(entry)
                                   ELSE entry)
               IN [made |-> <<call>> \o rest.made, err |-> rest.err]

\* ------------------------------------------------------- logger environment
\* An environment value is the sequence of its characters.  A number is a
\* decimal [m, e], which stands for m / 10^e; NaN is what Number yields for
\* a string that is not a number.
Dec(m, e) == [m |-> m, e |-> e]
NaN == [m |-> 0, e |-> -1]

\* undefined, where a number or an environment value or entry may stand
NoNumber == [m |-> 0, e |-> -2]
Unset == <<"undefined">>
NoEntry == [key |-> "", value |-> Unset]

Digits == {"0", "1", "2", "5"}

DigitValue(c) ==
  CASE c = "0" -> 0 [] c = "1" -> 1 [] c = "2" -> 2 [] c = "5" -> 5

RECURSIVE DigitsValue(_)
DigitsValue(digits) ==
  IF digits = <<>> THEN 0
  ELSE 10 * DigitsValue(SubSeq(digits, 1, Len(digits) - 1))
         + DigitValue(digits[Len(digits)])

RECURSIVE Pow10(_)
Pow10(e) == IF e = 0 THEN 1 ELSE 10 * Pow10(e - 1)

\* Number(text), for a text without white space: an optional minus sign,
\* digits, and at most one decimal point; the empty text is 0
Number(text) ==
  IF text = <<>> THEN Dec(0, 0)
  ELSE LET negative == Head(text) = "-"
           body == IF negative THEN Tail(text) ELSE text
           points == {i \in DOMAIN body : body[i] = "."}
           digits == SelectSeq(body, LAMBDA c : c \in Digits)
       IN IF \/ Cardinality(points) > 1
             \/ \E i \in DOMAIN body : body[i] \notin Digits \cup {"."}
             \/ digits = <<>>
          THEN NaN
          ELSE Dec((IF negative THEN -1 ELSE 1) * DigitsValue(digits),
                   IF points = {} THEN 0
                   ELSE Len(body) - (CHOOSE i \in points : TRUE))

\* parsed / 100
DividedBy100(n) == Dec(n.m, n.e + 2)

\* n > k and n <= k, for an integer k
GreaterThan(n, k) == n.m > k * Pow10(n.e)
AtMost(n, k) == n.m <= k * Pow10(n.e)

\* isIntegerString: /^[0-9]+$/
isIntegerString(value) ==
  value # <<>> /\ \A i \in DOMAIN value : value[i] \in Digits

\* parseSampleRateEnv; the values have no white space, which trim() would
\* remove
parseSampleRateEnv(value) ==
  IF value = Unset \/ value = <<>> THEN NoNumber
  ELSE LET isPercent == value[Len(value)] = "%"
           raw == IF isPercent THEN SubSeq(value, 1, Len(value) - 1) ELSE value
       IN IF Number(raw) = NaN THEN NoNumber
          ELSE IF isPercent THEN DividedBy100(Number(raw))
          ELSE IF GreaterThan(Number(raw), 1) /\ AtMost(Number(raw), 100)
                  /\ isIntegerString(raw)
          THEN DividedBy100(Number(raw))
          ELSE Number(raw)

\* clamp(value, 0, 1)
clamp(value) ==
  IF value.m < 0 THEN Dec(0, 0)
  ELSE IF GreaterThan(value, 1) THEN Dec(1, 0)
  ELSE value

\* pickEnvEntry(env, ["LOG_SAMPLE_RATE", "LOGGER_SAMPLE_RATE"]): the first
\* of the keys whose value is set and not empty
pickEnvEntry(env) ==
  IF env.LOG_SAMPLE_RATE # Unset /\ env.LOG_SAMPLE_RATE # <<>>
  THEN [key |-> "LOG_SAMPLE_RATE", value |-> env.LOG_SAMPLE_RATE]
  ELSE IF env.LOGGER_SAMPLE_RATE # Unset /\ env.LOGGER_SAMPLE_RATE # <<>>
  THEN [key |-> "LOGGER_SAMPLE_RATE", value |-> env.LOGGER_SAMPLE_RATE]
  ELSE NoEntry

\* resolveLoggerEnv, the resolution of the sample rate: the options, where
\* sampleRate is NoNumber when it is not set, and the keys of the warnings
resolveSampleRate(entry, sampleRate) ==
  [options |-> [sampleRate |-> IF sampleRate = NoNumber THEN NoNumber
                               ELSE clamp(sampleRate)],
   warnings |-> IF entry # NoEntry
                   /\ (sampleRate = NoNumber \/ clamp(sampleRate) # sampleRate)
                THEN {entry.key} ELSE {}]

resolveLoggerEnv(env) ==
  resolveSampleRate(pickEnvEntry(env),
                    IF pickEnvEntry(env) = NoEntry THEN NoNumber
                    ELSE parseSampleRateEnv(pickEnvEntry(env).value))

\* ------------------------------------------------------------------- state
NoWrite == [store |-> NoStore, key |-> "", val |-> Undef]

Result(op, err, ret, arg) == [op |-> op, err |-> err, ret |-> ret, arg |-> arg]

\* no Logger has been constructed
NoLogger == [level |-> "none"]

\* startTimer has not been called
NoTimer == [level |-> "none"]

InitState ==
  /\ heap = InitHeap
  /\ active = NoStore
  /\ stack = <<>>
  /\ queue = {}
  /\ res = Result("init", "none", Undef, Undef)
  /\ scopes = <<>>
  /\ lastWrite = NoWrite
  /\ snaps = {}
  /\ pending = {}
  /\ logger = NoLogger
  /\ sent = <<>>
  /\ done = <<>>
  /\ childLogger = NoLogger
  /\ invoked = <<>>
  /\ timer = NoTimer

Running == stack # <<>>
Top == stack[Len(stack)]
\* the scope the running code belongs to, 0 when it belongs to none
Cur == IF Running THEN Top.scope ELSE 0

\* a callback being executed: the store to restore when it returns, its
\* scope, and the store Context.enterWith has installed while it runs, if any
Frame(kind, saved, scope) ==
  [kind |-> kind, saved |-> saved, scope |-> scope, entered |-> NoStore]
Scope(store, parent, kind) == [store |-> store, parent |-> parent, kind |-> kind]

\* AsyncLocalStorage.run(store, callback), entry: the store becomes active
\* for the callback, the previous one is kept to be restored on exit
alsEnter(store, kind, parent, op, arg, h) ==
  /\ heap' = h
  /\ active' = store
  /\ stack' = Append(stack, Frame(kind, active, Len(scopes) + 1))
  /\ scopes' = Append(scopes, Scope(store, parent, kind))
  /\ res' = Result(op, "none", Undef, arg)
  /\ UNCHANGED <<queue, lastWrite, snaps, steps, pending, logger, sent, done, childLogger,
                 invoked, timer>>

\* the store AsyncLocalStorage makes active when a callback returns
alsExit(saved) == saved

\* what AsyncLocalStorage.run, and so Context.run, returns: the callback's
\* result
alsReturn(result) == result

\* a resumption that leaves the store of the previous callback in place
alsResumeStale(captured) == active

\* the store the event loop makes active when it resumes a continuation
alsResume(captured) == captured

\* an enterWith that leaves the active store in place
alsEnterWithIgnored(store) == active

\* AsyncLocalStorage.enterWith(store): the store becomes the active one of
\* the current execution
alsEnterWith(store) == store

\* ------------------------------------------------------- scopes and tasks
\* the event loop starts a unit of work that belongs to no scope
StartTask ==
  /\ ~Running
  /\ stack' = <<Frame("task", NoStore, 0)>>
  /\ res' = Result("task", "none", Undef, Undef)
  /\ UNCHANGED <<heap, active, queue, scopes, lastWrite, snaps, steps,
                 pending, logger, sent, done, childLogger,
                 invoked, timer>>

\* Context.run(callback)
RunCallbackOnly(limit) ==
  /\ Running
  /\ Len(scopes) < limit
  /\ FreeAddrs(heap) # {}
  /\ LET n == Alloc(heap)
     IN alsEnter(n, "run", 0, "runCallback", Undef,
                 [heap EXCEPT ![n] = ObjCell(NoProps)])

\* Context.run({ ...literal }, callback)
RunLiteral(limit, literals) ==
  /\ Running
  /\ Len(scopes) < limit
  /\ FreeAddrs(heap) # {}
  /\ \E lit \in literals :
       LET n == Alloc(heap)
       IN alsEnter(n, "run", 0, "run", lit, [heap EXCEPT ![n] = ObjCell(lit)])

\* Context.run(initialStore, callback), initialStore an object of the caller
RunObject(limit) ==
  /\ Running
  /\ Len(scopes) < limit
  /\ alsEnter(SeedAddr, "run", 0, "run", heap[SeedAddr].props, heap)

\* Context.run(initialStore) without a callback
RunNoCallback ==
  /\ Running
  /\ res' = Result("run", "MissingCallback", Undef, Undef)
  /\ UNCHANGED <<heap, active, stack, queue, scopes, lastWrite, snaps, steps,
                 pending, logger, sent, done, childLogger,
                 invoked, timer>>

\* a derivation in which the keys of the current store win
runWithStoreParentWins(h, s, values) ==
  LET baseStore == IF s # NoStore THEN h[s].props ELSE NoProps
  IN ObjCell(Spread(values, baseStore))

\* Context.runWith(values, callback)
runWithStore(h, s, values) ==
  LET baseStore == IF s # NoStore THEN h[s].props ELSE NoProps
  IN ObjCell(Spread(baseStore, values))

RunWith(limit, overlays) ==
  /\ Running
  /\ Len(scopes) < limit
  /\ FreeAddrs(heap) # {}
  /\ \E values \in overlays :
       LET n == Alloc(heap)
       IN alsEnter(n, "runWith", Cur, "runWith", values,
                   [heap EXCEPT ![n] = runWithStore(heap, active, values)])

\* asyncContextExpressMiddleware: { ...(seedValue ?? {}), [idKey]: idFactory() }
middlewareStore(h, seed, id) ==
  LET seedValue == IF seed = NoStore THEN NoProps ELSE h[seed].props
  IN ObjCell(Spread(seedValue, [k \in {"instance_id"} |-> id]))

\* an incoming request goes through the middleware; seed is undefined or
\* the object given in the middleware's options
Request(limit) ==
  /\ ~Running
  /\ Len(scopes) < limit
  /\ FreeAddrs(heap) # {}
  /\ \E seed \in {NoStore, SeedAddr} :
       LET n == Alloc(heap)
           id == <<"id", Len(scopes) + 1>>
       IN alsEnter(n, "request", 0, "request", seed,
                   [heap EXCEPT ![n] = middlewareStore(heap, seed, id)])

\* the callback being executed returns; a callback returns
\* Context.getValue("a")
Return ==
  /\ Running
  /\ active' = alsExit(Top.saved)
  /\ stack' = SubSeq(stack, 1, Len(stack) - 1)
  /\ LET result == getValue(heap, active, "a", Undef)
     IN res' = Result("return", "none", alsReturn(result), <<Top.kind, result>>)
  /\ UNCHANGED <<heap, queue, scopes, lastWrite, snaps, steps,
                 pending, logger, sent, done, childLogger,
                 invoked, timer>>

\* Context.enterWith({ ...literal })
EnterWith(literals) ==
  /\ Running
  /\ steps > 0
  /\ FreeAddrs(heap) # {}
  /\ steps' = steps - 1
  /\ \E lit \in literals :
       LET n == Alloc(heap)
       IN /\ heap' = [heap EXCEPT ![n] = ObjCell(lit)]
          /\ active' = alsEnterWith(n)
          /\ stack' = [stack EXCEPT ![Len(stack)].entered = n]
          /\ res' = Result("enterWith", "none", Undef, lit)
  /\ UNCHANGED <<queue, scopes, lastWrite, snaps, pending, logger, sent,
                 done, childLogger,
                 invoked, timer>>

\* the running code reaches a suspension point (await, timer, callback):
\* its continuation is registered with the store active at that moment
Register ==
  /\ Running
  /\ Cardinality(queue) < MaxQueue
  /\ queue' = queue \cup {[store |-> active, scope |-> Cur,
                           entered |-> Top.entered]}
  /\ res' = Result("register", "none", Undef, Undef)
  /\ UNCHANGED <<heap, active, stack, scopes, lastWrite, snaps, steps,
                 pending, logger, sent, done, childLogger,
                 invoked, timer>>

\* the event loop resumes a continuation
Resume ==
  /\ ~Running
  /\ \E c \in queue :
       /\ queue' = queue \ {c}
       /\ active' = alsResume(c.store)
       /\ stack' = <<[Frame("resume", NoStore, c.scope)
                        EXCEPT !.entered = c.entered]>>
  /\ res' = Result("resume", "none", Undef, Undef)
  /\ UNCHANGED <<heap, scopes, lastWrite, snaps, steps,
                 pending, logger, sent, done, childLogger,
                 invoked, timer>>

\* --------------------------------------------------- the store operations
\* a call that only reads
Read(op, err, ret, arg) ==
  /\ Running
  /\ steps > 0
  /\ steps' = steps - 1
  /\ res' = Result(op, err, ret, arg)
  /\ UNCHANGED <<heap, active, stack, queue, scopes, lastWrite, snaps,
                 pending, logger, sent, done, childLogger,
                 invoked, timer>>

\* a call that may write: out is its outcome, lw what is then known of the
\* last addValue
Write(op, out, arg, lw) ==
  /\ Running
  /\ steps > 0
  /\ steps' = steps - 1
  /\ heap' = out.heap
  /\ res' = Result(op, out.err, out.ret, arg)
  /\ lastWrite' = lw
  /\ UNCHANGED <<active, stack, queue, scopes, snaps,
                 pending, logger, sent, done, childLogger,
                 invoked, timer>>

GetStore ==
  /\ Running
  /\ Read("getStore", "none", getStore(active), Undef)

RequireStore ==
  /\ Running
  /\ LET out == requireStore(heap, active)
     IN Read("requireStore", out.err, out.ret, Undef)

\* the fallback a caller passes to getValue
Fallback == Num(9)

GetValue(keys) ==
  /\ Running
  /\ \E key \in keys :
       Read("getValue", "none", getValue(heap, active, key, Fallback), key)

RequireValue(keys) ==
  /\ Running
  /\ \E key \in keys :
       LET out == requireValue(heap, active, key)
       IN Read("requireValue", out.err, out.ret, key)

Has(keys) ==
  /\ Running
  /\ \E key \in keys : Read("has", "none", has(heap, active, key), key)

Snapshot ==
  /\ Running
  /\ steps > 0
  /\ FreeAddrs(heap) # {}
  /\ LET out == snapshot(heap, active)
     IN /\ heap' = out.heap
        /\ res' = Result("snapshot", out.err, out.ret, Undef)
        /\ snaps' = IF IsRef(out.ret) THEN snaps \cup {out.ret[2]} ELSE snaps
  /\ steps' = steps - 1
  /\ UNCHANGED <<active, stack, queue, scopes, lastWrite,
                 pending, logger, sent, done, childLogger,
                 invoked, timer>>

\* the caller assigns to a key of a snapshot it holds: snapshot.a = 7
WriteSnapshot ==
  /\ Running
  /\ steps > 0
  /\ \E n \in snaps :
       /\ heap' = [heap EXCEPT ![n].props = Put(@, "a", Num(7))]
       /\ res' = Result("writeSnapshot", "none", Undef, n)
  /\ steps' = steps - 1
  /\ lastWrite' = NoWrite
  /\ UNCHANGED <<active, stack, queue, scopes, snaps,
                 pending, logger, sent, done, childLogger,
                 invoked, timer>>

SetDefault(keys, values) ==
  /\ Running
  /\ \E key \in keys, value \in values :
       Write("setDefault", setDefault(heap, active, key, value),
             <<key, value>>, NoWrite)

Reset ==
  /\ Running
  /\ Write("reset", reset(heap, active), Undef, NoWrite)

AddValue(keys, values) ==
  /\ Running
  /\ \E key \in keys, value \in values :
       Write("addValue", addValue(heap, active, key, value), <<key, value>>,
             IF active = NoStore THEN lastWrite
             ELSE [store |-> active, key |-> key, val |-> value])

AddObjectValue(objects) ==
  /\ Running
  /\ \E object \in objects :
       Write("addObjectValue", addObjectValue(heap, active, object), object,
             NoWrite)

AddOptions(optionss, keys) ==
  /\ FreeAddrs(heap) # {}
  /\ \E options \in optionss, key \in keys :
       Write("addOptions", addOptions(heap, active, options, key),
             <<options, key>>, NoWrite)

Remove(keys) ==
  /\ Running
  /\ \E key \in keys : Write("remove", remove(heap, active, key), key, NoWrite)

SafeRemove(keys) ==
  /\ Running
  /\ \E key \in keys :
       Write("safeRemove", safeRemove(heap, active, key), key, NoWrite)

\* work that returns 1, throws an Error, throws undefined
Works ==
  { [threw |-> FALSE, val |-> Num(1)],
    [threw |-> TRUE, val |-> <<"error", 1>>],
    [threw |-> TRUE, val |-> Undef] }

Measure(works, keys, modes) ==
  /\ FreeAddrs(heap) # {}
  /\ \E work \in works, key \in keys, mode \in modes :
       Write("measure", measure(heap, active, 1, work, key, mode),
             <<work, key, mode>>, NoWrite)

\* the initial stores of SpecMeasure: key perf absent, a number, null,
\* undefined
PerfLiterals ==
  { [k \in {"a"} |-> Num(1)],
    [k \in {"a", "perf"} |-> IF k = "a" THEN Num(1) ELSE Num(5)],
    [k \in {"a", "perf"} |-> IF k = "a" THEN Num(1) ELSE Null],
    [k \in {"a", "perf"} |-> IF k = "a" THEN Num(1) ELSE Undef] }

\* what is known of one measure call: its name (the calls are numbered),
\* the store active when it was made and the scope of the calling code
Call(name, key, mode) ==
  [name |-> name, key |-> key, mode |-> mode, store |-> active, scope |-> Cur]

\* Context.measure(name, callback, {key, mode}), callback synchronous
MeasureSync(works, keys, modes) ==
  /\ Running
  /\ steps > 0
  /\ FreeAddrs(heap) # {}
  /\ \E work \in works, key \in keys, mode \in modes :
       LET call == Call(steps, key, mode)
           out == measure(heap, active, call.name, work, key, mode)
       IN /\ heap' = out.heap
          /\ done' = Append(done, call)
          /\ res' = Result("measureSync", out.err, out.ret,
                           [call |-> call, work |-> work])
  /\ steps' = steps - 1
  /\ lastWrite' = NoWrite
  /\ UNCHANGED <<active, stack, queue, scopes, snaps, pending, logger, sent, childLogger,
                 invoked, timer>>

\* Context.measure(name, callback, {key, mode}), callback returning a
\* promise: then and catch handlers are attached, nothing is recorded yet
MeasureAsync(keys, modes) ==
  /\ Running
  /\ steps > 0
  /\ steps' = steps - 1
  /\ \E key \in keys, mode \in modes :
       LET call == Call(steps, key, mode)
       IN /\ pending' = pending \cup {call}
          /\ res' = Result("measureAsync", "none", <<"promise", steps>>,
                           [call |-> call])
  /\ UNCHANGED <<heap, active, stack, queue, scopes, lastWrite, snaps,
                 logger, sent, done, childLogger,
                 invoked, timer>>

\* the promise of a measured work settles: the handler attached by measure
\* runs as a microtask with the store that was active when it was attached
Settle(works) ==
  /\ ~Running
  /\ FreeAddrs(heap) # {}
  /\ \E call \in pending, work \in works :
       LET out == measure(heap, alsResume(call.store), call.name, work,
                          call.key, call.mode)
       IN /\ heap' = out.heap
          /\ pending' = pending \ {call}
          /\ done' = Append(done, call)
          /\ res' = Result("measureSettled",
                           IF work.threw THEN "rejected" ELSE "none", out.ret,
                           [call |-> call, work |-> work])
  /\ lastWrite' = NoWrite
  /\ UNCHANGED <<active, stack, queue, scopes, snaps, steps, logger, sent, childLogger,
                 invoked, timer>>

\* logger.setLevel(level)
SetLevel(levels) ==
  /\ logger # NoLogger
  /\ \E level \in levels :
       /\ level # logger.level
       /\ logger' = [logger EXCEPT !.level = level]
       /\ res' = Result("setLevel", "none", Undef, level)
  /\ UNCHANGED <<heap, active, stack, queue, scopes, lastWrite, snaps, steps,
                 pending, sent, done, childLogger,
                 invoked, timer>>

\* the end of a log call of which out is the outcome and d the delivery:
\* the entry is handed to the transports, or the call throws, or it returns
\* without an entry
Handed(op, out, d, arg) ==
  /\ heap' = out.heap
  /\ sent' = IF out.emit THEN Append(sent, out.entry) ELSE sent
  /\ invoked' = IF out.emit THEN invoked \o d.made ELSE invoked
  /\ res' = Result(op,
                   IF out.entry = Thrown THEN "RangeError"
                   ELSE IF out.emit THEN d.err ELSE "none",
                   Bool(out.emit), arg)

\* the delivery of the outcome of a log call
Delivery(lg, out) ==
  IF out.emit THEN deliver(lg.transports, out.entry)
  ELSE [made |-> <<>>, err |-> "none"]

\* lg.log(level, ...args), called by the operation op
LogOn(lg, op, by, out, arg) ==
  /\ Handed(op, out, Delivery(lg, out), arg @@ [by |-> by])
  /\ steps' = steps - 1
  /\ UNCHANGED <<active, stack, queue, scopes, lastWrite, snaps, pending,
                 logger, done, childLogger, timer>>

\* logger.log(level, ...args), and logger.info(...args) and the like, which
\* call it; draw is what Math.random() returns if it is called
Log(levels, argss, draws) ==
  /\ Running
  /\ logger # NoLogger
  /\ steps > 0
  /\ \E level \in levels, args \in argss, draw \in draws :
       LogOn(logger, "log", "logger",
             log(heap, active, logger, level, args, draw),
             [level |-> level, args |-> args, draw |-> draw])

\* childLogger.log(level, ...args)
LogChild(levels, argss, draws) ==
  /\ Running
  /\ childLogger # NoLogger
  /\ steps > 0
  /\ \E level \in levels, args \in argss, draw \in draws :
       LogOn(childLogger, "log", "child",
             log(heap, active, childLogger, level, args, draw),
             [level |-> level, args |-> args, draw |-> draw])

\* logger.child(bindings, options); the child is the second Logger
\* constructed
Child(bindingss, optionss) ==
  /\ logger # NoLogger
  /\ childLogger = NoLogger
  /\ \E bindings \in bindingss, options \in optionss :
       /\ childLogger' = child(heap, logger, bindings, options, 1)
       /\ res' = Result("child", "none", Undef,
                        [bindings |-> bindings, options |-> options])
  /\ UNCHANGED <<heap, active, stack, queue, scopes, lastWrite, snaps, steps,
                 pending, logger, sent, done, invoked, timer>>

\* the readings of the clock
Times == 0..MaxClock

\* logger.startTimer(level): the closure holds the level and the reading of
\* the clock
StartTimer(levels) ==
  /\ Running
  /\ logger # NoLogger
  /\ timer = NoTimer
  /\ \E level \in levels, start \in Times :
       /\ timer' = [level |-> level, start |-> start]
       /\ res' = Result("startTimer", "none", Undef, level)
  /\ UNCHANGED <<heap, active, stack, queue, scopes, lastWrite, snaps, steps,
                 pending, logger, sent, done, childLogger, invoked>>

\* { ...(data ?? {}), duration_ms: duration }
timerData(h, data, duration) ==
  Spread(IF data = Undef THEN NoProps ELSE h[data[2]].props,
         [k \in {"duration_ms"} |-> Num(duration)])

\* the closure startTimer returned, called with (message, data): the clock
\* is read again, not before the reading of startTimer, and the entry is
\* logged with a new data object
End(messages, datas, draws) ==
  /\ Running
  /\ timer # NoTimer
  /\ steps > 0
  /\ FreeAddrs(heap) # {}
  /\ \E message \in messages, data \in datas, draw \in draws,
        now \in {t \in Times : t >= timer.start} :
       LET n == Alloc(heap)
           args == <<IF message = Undef THEN Str("operation completed")
                     ELSE message, Ref(n)>>
       IN LogOn(logger, "end", "timer",
                log([heap EXCEPT
                       ![n] = ObjCell(timerData(heap, data, now - timer.start))],
                    active, logger, timer.level, args, draw),
                [level |-> timer.level, args |-> args, draw |-> draw,
                 message |-> message, data |-> data, now |-> now])

\* ----------------------------------------------------------- specification
\* Spec: one unit of work, every operation with all its inputs
Init ==
  /\ InitState
  /\ steps = MaxSteps

Next ==
  \/ StartTask
  \/ RunCallbackOnly(1)
  \/ RunLiteral(1, Literals)
  \/ RunObject(1)
  \/ RunNoCallback
  \/ Return
  \/ GetStore
  \/ RequireStore
  \/ GetValue({"a", "options"})
  \/ RequireValue({"a", "options"})
  \/ Has({"a", "options"})
  \/ Snapshot
  \/ WriteSnapshot
  \/ SetDefault({"a"}, {Num(1), Undef})
  \/ Reset
  \/ AddValue({"a", "options"}, {Num(1), Undef})
  \/ AddObjectValue(Literals)
  \/ AddOptions({OptsAddr, Opts2Addr}, {"options", "perf"})
  \/ Remove({"a"})
  \/ SafeRemove({"a"})
  \/ Measure(Works, {"perf"}, {"append", "overwrite"})

Spec == Init /\ [][Next]_vars

\* SpecScopes: scopes created by separate Context.run calls and by the
\* middleware, their continuations interleaved by the event loop; every
\* writing operation, the running code writing the number of its scope
InitScopes ==
  /\ InitState
  /\ steps = MaxScopeSteps

NextScopes ==
  \/ StartTask
  \/ Request(MaxScopes)
  \/ RunLiteral(MaxScopes, {[k \in {"a"} |-> Num(0)]})
  \/ Return
  \/ Register
  \/ Resume
  \/ SetDefault({"a"}, {Num(Cur)})
  \/ Reset
  \/ AddValue({"a"}, {Num(Cur)})
  \/ AddObjectValue({[k \in {"a"} |-> Num(Cur + 2)]})
  \/ AddOptions({OptsAddr}, {"options"})
  \/ Remove({"a"})
  \/ Measure({[threw |-> FALSE, val |-> Num(1)]}, {"perf"}, {"append"})

SpecScopes == InitScopes /\ [][NextScopes]_vars

\* SpecDerive: scopes derived with Context.runWith from a parent scope or
\* from no scope, and every writing operation inside them
InitDerive ==
  /\ InitState
  /\ steps = MaxDeriveSteps

NextDerive ==
  \/ StartTask
  \/ RunLiteral(MaxDerive, {[k \in {"a", "b"} |-> Num(0)]})
  \/ RunObject(MaxDerive)
  \/ RunWith(MaxDerive, Overlays)
  \/ Return
  \/ SetDefault({"a"}, {Num(Cur)})
  \/ Reset
  \/ AddValue({"a"}, {Num(Cur)})
  \/ AddObjectValue({[k \in {"a"} |-> Num(Cur + 2)]})
  \/ AddOptions({OptsAddr}, {"options"})
  \/ Remove({"a"})
  \/ Measure({[threw |-> FALSE, val |-> Num(1)]}, {"perf"}, {"append"})

SpecDerive == InitDerive /\ [][NextDerive]_vars

\* SpecMeasure: measure calls with synchronous and asynchronous work that
\* succeeds or fails, in both modes, in a scope whose store holds nothing, a
\* number, null or undefined at the key, or in no scope
InitMeasure ==
  /\ InitState
  /\ steps = MaxMeasure

NextMeasure ==
  \/ StartTask
  \/ RunLiteral(1, PerfLiterals)
  \/ Return
  \/ MeasureSync(Works, {"perf"}, {"append", "overwrite"})
  \/ MeasureAsync({"perf"}, {"append", "overwrite"})
  \/ Settle(Works)

SpecMeasure == InitMeasure /\ [][NextMeasure]_vars

LogLevels == DOMAIN LEVEL_VALUES

\* the options given to createLogger in SpecLog: minimum level and sample
\* rate, context attachment off
LevelOptions ==
  { [level |-> l, sampleRate |-> r, context |-> FALSE, timestamp |-> FALSE,
     includePid |-> FALSE] :
      l \in {"info", "error"}, r \in {0, SampleOne \div 2, SampleOne} }

\* SpecLog: log calls at every level on a logger whose minimum level
\* changes, with every sample rate and every random draw
InitLog ==
  /\ heap = InitHeap
  /\ active = NoStore
  /\ stack = <<>>
  /\ queue = {}
  /\ res = Result("init", "none", Undef, Undef)
  /\ scopes = <<>>
  /\ lastWrite = NoWrite
  /\ snaps = {}
  /\ pending = {}
  /\ sent = <<>>
  /\ done = <<>>
  /\ childLogger = NoLogger
  /\ invoked = <<>>
  /\ timer = NoTimer
  /\ steps = MaxLogs
  /\ logger \in {Logger(o) : o \in LevelOptions}

NextLog ==
  \/ StartTask
  \/ Return
  \/ SetLevel({"debug", "error"})
  \/ Log(LogLevels, {<<Str("m")>>}, Draws)

SpecLog == InitLog /\ [][NextLog]_vars

\* objects the caller passes to the logger in SpecEntry:
\*   { id: 1, pwd: "s", nested: <NestedAddr>, items: <ItemsAddr> }
\*   { Pwd: "s", "p-wd": "s", PIN: "s", a: 1 }
\*   [ <ItemAddr>, 1 ]
\*   { pwd: "s", id: 2 }
DataAddr == 1
NestedAddr == 2
ItemsAddr == 3
ItemAddr == 4

LogHeap ==
  [a \in Addr |->
     CASE a = DataAddr ->
            ObjCell([k \in {"id", "pwd", "nested", "items"} |->
                       CASE k = "id" -> Num(1)
                         [] k = "pwd" -> Str("s")
                         [] k = "nested" -> Ref(NestedAddr)
                         [] k = "items" -> Ref(ItemsAddr)])
       [] a = NestedAddr ->
            ObjCell([k \in {"Pwd", "p-wd", "PIN", "a"} |->
                       IF k = "a" THEN Num(1) ELSE Str("s")])
       [] a = ItemsAddr -> ArrCell(<<Ref(ItemAddr), Num(1)>>)
       [] a = ItemAddr ->
            ObjCell([k \in {"pwd", "id"} |->
                       IF k = "id" THEN Num(2) ELSE Str("s")])
       [] OTHER -> FreeCell]

\* the values passed as log arguments: a string, an Error and a plain
\* object, which the dispatch looks for, and an array and a number
PartValues == {Str("m"), Err("boom"), Ref(DataAddr)}
ArgValues == PartValues \cup {Ref(ItemsAddr), Num(7)}

\* the argument lists: up to two of any of the values, and three of the
\* values the dispatch looks for
ArgLists ==
  {<<>>} \cup {<<x>> : x \in ArgValues}
    \cup {<<x, y>> : x \in ArgValues, y \in ArgValues}
    \cup {<<x, y, z>> : x \in PartValues, y \in PartValues, z \in PartValues}

\* the store of the scope in SpecEntry
EntryStore ==
  [k \in {"a", "pwd", "nested"} |->
     CASE k = "a" -> Num(1) [] k = "pwd" -> Str("s")
       [] k = "nested" -> Ref(NestedAddr)]

\* redactKeys paths, as path.split(".") yields them
Paths ==
  { <<"data", "pwd">>, <<"data", "items", "*", "id">>, <<"data", "*">>,
    <<"data", "items", "1">>, <<"data", "", "nested", "a">>,
    <<"data", "x">>, <<"context", "b", "x">>, <<"*", "id">> }

\* the options given to createLogger in SpecEntry: no redaction; the
\* default name-based redaction, with bindings; configured names only; one
\* path and no name-based redaction
Plain ==
  [redactDefaults |-> FALSE, timestamp |-> FALSE, includePid |-> FALSE]

EntryOptions ==
  { Plain,
    [bindings |-> <<"obj", [k \in {"service", "pwd"} |-> Str("s")]>>],
    [redactDefaults |-> FALSE, redactFieldNames |-> {"PIN", "__"},
     name |-> Str("api")] }
    \cup {[redactKeys |-> <<p>>] @@ Plain : p \in Paths}

\* SpecEntry: one log call with every argument list, inside a scope or
\* outside, on a logger with each of the redaction settings
InitEntry ==
  /\ heap = LogHeap
  /\ active = NoStore
  /\ stack = <<>>
  /\ queue = {}
  /\ res = Result("init", "none", Undef, Undef)
  /\ scopes = <<>>
  /\ lastWrite = NoWrite
  /\ snaps = {}
  /\ pending = {}
  /\ sent = <<>>
  /\ done = <<>>
  /\ childLogger = NoLogger
  /\ invoked = <<>>
  /\ timer = NoTimer
  /\ steps = MaxEntries
  /\ logger \in {Logger(o) : o \in EntryOptions}

NextEntry ==
  \/ StartTask
  \/ RunLiteral(1, {EntryStore})
  \/ Return
  \/ Log({"info"}, ArgLists, {0})

SpecEntry == InitEntry /\ [][NextEntry]_vars

\* the initial stores of the scopes of SpecContext
ContextLiterals ==
  { [k \in {"a"} |-> Num(0)],
    [k \in {"a", "pwd", "id"} |-> IF k = "pwd" THEN Str("s") ELSE Num(0)] }

\* the options given to createLogger in SpecContext: the defaults; a
\* context field name and an allow-list; no name-based redaction; context
\* attachment off; a context field name that is itself redacted
ContextOptions ==
  { [timestamp |-> FALSE],
    [contextKey |-> "secret", timestamp |-> FALSE],
    [contextKey |-> "ctx", contextKeys |-> {"a", "b"}, timestamp |-> FALSE],
    [contextKeys |-> {"pwd", "id"}, redactDefaults |-> FALSE,
     timestamp |-> FALSE],
    [context |-> FALSE, timestamp |-> FALSE] }

\* SpecContext: log calls made outside any scope and inside nested scopes
\* whose stores differ and change
InitContext ==
  /\ heap = InitHeap
  /\ active = NoStore
  /\ stack = <<>>
  /\ queue = {}
  /\ res = Result("init", "none", Undef, Undef)
  /\ scopes = <<>>
  /\ lastWrite = NoWrite
  /\ snaps = {}
  /\ pending = {}
  /\ sent = <<>>
  /\ done = <<>>
  /\ childLogger = NoLogger
  /\ invoked = <<>>
  /\ timer = NoTimer
  /\ steps = MaxContextSteps
  /\ logger \in {Logger(o) : o \in ContextOptions}

NextContext ==
  \/ StartTask
  \/ RunLiteral(MaxContextScopes, ContextLiterals)
  \/ RunObject(MaxContextScopes)
  \/ Return
  \/ AddValue({"a"}, {Num(Cur)})
  \/ Log({"info"}, {<<Str("m")>>}, {0})

SpecContext == InitContext /\ [][NextContext]_vars

\* the stores of SpecEnter: of the scopes, and given to enterWith
EnterLiterals == {[k \in {"a"} |-> Num(0)]}
EnteredLiterals == {[k \in {"b"} |-> Num(1)]}

\* SpecEnter: enterWith inside and outside scopes, followed by reads,
\* writes, nested scopes and continuations
InitEnter ==
  /\ InitState
  /\ steps = MaxEnterSteps

NextEnter ==
  \/ StartTask
  \/ RunLiteral(MaxEnterScopes, EnterLiterals)
  \/ Return
  \/ Register
  \/ Resume
  \/ EnterWith(EnteredLiterals)
  \/ GetStore
  \/ AddValue({"a"}, {Num(5)})

SpecEnter == InitEnter /\ [][NextEnter]_vars

\* the objects of SpecGraph, which share objects and contain cycles:
\*   1  { a: <2>, b: <2> }            the same object under two keys
\*   2  { id: 1 }
\*   3  { id: 3, nested: <3> }        an object that contains itself
\*   4  { items: <5> }                a cycle through an array
\*   5  [ <4>, 1 ]
\*   6  Map { x -> <6> }              a Map that contains itself
\*   7  { value: <8> }                a cycle through a Set
\*   8  Set { <7> }
\*   9  Error("boom", { cause: <9> }) an Error that is its own cause
MapCell(p) == [kind |-> "map", props |-> p, items |-> <<>>]
SetCell(s) == [kind |-> "set", props |-> NoProps, items |-> s]
ErrCell(message, cause) ==
  [kind |-> "err", props |-> [k \in {"message", "cause"} |->
                               IF k = "message" THEN Str(message) ELSE cause],
   items |-> <<>>]

GraphHeap ==
  [a \in Addr |->
     CASE a = 1 -> ObjCell([k \in {"a", "b"} |-> Ref(2)])
       [] a = 2 -> ObjCell([k \in {"id"} |-> Num(1)])
       [] a = 3 -> ObjCell([k \in {"id", "nested"} |->
                             IF k = "id" THEN Num(3) ELSE Ref(3)])
       [] a = 4 -> ObjCell([k \in {"items"} |-> Ref(5)])
       [] a = 5 -> ArrCell(<<Ref(4), Num(1)>>)
       [] a = 6 -> MapCell([k \in {"x"} |-> Ref(6)])
       [] a = 7 -> ObjCell([k \in {"value"} |-> Ref(8)])
       [] a = 8 -> SetCell(<<Ref(7)>>)
       [] a = 9 -> ErrCell("boom", Ref(9))
       [] OTHER -> FreeCell]

\* a chain of MaxChain objects, each under the key nested of the one before
DeepHeap ==
  [a \in Addr |->
     IF a < MaxChain THEN ObjCell([k \in {"nested"} |-> Ref(a + 1)])
     ELSE IF a = MaxChain THEN ObjCell([k \in {"id"} |-> Num(1)])
     ELSE FreeCell]

\* the argument lists of the log calls of SpecGraph: an object of the heap,
\* alone or after a message
GraphArgLists ==
  LET live == {a \in Addr : heap[a].kind # "free"}
  IN {<<Ref(a)>> : a \in live} \cup {<<Str("m"), Ref(a)>> : a \in live}

\* SpecGraph: log calls with data that shares objects, contains cycles or
\* is deeply nested, outside any scope and inside a scope whose store is
\* such an object
InitGraph ==
  /\ heap \in {GraphHeap, DeepHeap}
  /\ active = NoStore
  /\ stack = <<>>
  /\ queue = {}
  /\ res = Result("init", "none", Undef, Undef)
  /\ scopes = <<>>
  /\ lastWrite = NoWrite
  /\ snaps = {}
  /\ pending = {}
  /\ sent = <<>>
  /\ done = <<>>
  /\ childLogger = NoLogger
  /\ invoked = <<>>
  /\ timer = NoTimer
  /\ steps = MaxGraphLogs
  /\ logger \in {Logger(Plain), Logger([timestamp |-> FALSE])}

NextGraph ==
  \/ StartTask
  \/ RunObject(1)
  \/ Return
  \/ Log({"info"}, GraphArgLists, {0})

SpecGraph == InitGraph /\ [][NextGraph]_vars

\* a transport that collects the entries, as the tests use
MemoryTransport == Transport(<<"memory", 0>>, "keep")

\* the options given to createLogger in SpecChild: bindings, one of them
\* with a name that is redacted, and a transport of the caller
ParentOptions ==
  { [bindings |-> <<"obj", [k \in {"service", "x"} |->
                              IF k = "x" THEN Num(0) ELSE Str("api")]>>,
     context |-> FALSE, timestamp |-> FALSE, includePid |-> FALSE],
    [bindings |-> <<"obj", [k \in {"service", "pwd"} |-> Str("s")]>>,
     level |-> "debug", timestamp |-> FALSE],
    [bindings |-> <<"obj", [k \in {"service"} |-> Str("api")]>>,
     transports |-> <<MemoryTransport>>, redactDefaults |-> FALSE,
     timestamp |-> FALSE] }

\* the options given to logger.child in SpecChild
ChildOptions ==
  { NoProps,
    [level |-> "error"],
    [redactDefaults |-> FALSE, name |-> Str("job")],
    [format |-> "json"],
    [transports |-> <<Transport(<<"memory", 1>>, "keep")>>] }

\* SpecChild: a logger with bindings, a child made of it with more
\* bindings and with options, log calls on both, and changes of the
\* parent's level before and after the child is made
InitChild ==
  /\ heap = InitHeap
  /\ active = NoStore
  /\ stack = <<>>
  /\ queue = {}
  /\ res = Result("init", "none", Undef, Undef)
  /\ scopes = <<>>
  /\ lastWrite = NoWrite
  /\ snaps = {}
  /\ pending = {}
  /\ sent = <<>>
  /\ done = <<>>
  /\ childLogger = NoLogger
  /\ invoked = <<>>
  /\ timer = NoTimer
  /\ steps = MaxChildLogs
  /\ logger \in {Logger(o) : o \in ParentOptions}

NextChild ==
  \/ StartTask
  \/ Return
  \/ SetLevel({"debug", "error"})
  \/ Child({Ref(OptsAddr), Ref(Opts2Addr)}, ChildOptions)
  \/ Log({"info"}, {<<Str("m")>>}, {0})
  \/ LogChild({"info", "error"}, {<<Str("m")>>}, {0})

SpecChild == InitChild /\ [][NextChild]_vars

\* what a transport, a procedure of the caller, may do with the entry
Behaviours == {"keep", "change", "throw"}

\* the lists of transports given to createLogger in SpecTransports
TransportLists ==
  UNION {[1..n -> Behaviours] : n \in 1..MaxTransports}

\* the options given to createLogger in SpecTransports: the transports, in
\* the order of their registration, and a sample rate
TransportOptions ==
  { [transports |-> [i \in DOMAIN does |-> Transport(<<"memory", i>>, does[i])],
     sampleRate |-> r, context |-> FALSE, timestamp |-> FALSE,
     includePid |-> FALSE] :
      does \in TransportLists, r \in {SampleOne \div 2, SampleOne} }

\* SpecTransports: log calls at levels below and above the minimum, with
\* every random draw, on loggers with up to MaxTransports transports that
\* keep the entry, change it or throw
InitTransports ==
  /\ heap = InitHeap
  /\ active = NoStore
  /\ stack = <<>>
  /\ queue = {}
  /\ res = Result("init", "none", Undef, Undef)
  /\ scopes = <<>>
  /\ lastWrite = NoWrite
  /\ snaps = {}
  /\ pending = {}
  /\ sent = <<>>
  /\ done = <<>>
  /\ childLogger = NoLogger
  /\ invoked = <<>>
  /\ timer = NoTimer
  /\ steps = MaxDeliveries
  /\ logger \in {Logger(o) : o \in TransportOptions}

NextTransports ==
  \/ StartTask
  \/ Return
  \/ Log({"debug", "info"}, {<<Str("m")>>}, Draws)

SpecTransports == InitTransports /\ [][NextTransports]_vars

\* the characters of the environment values of SpecEnv, and the values
RawChars == Digits \cup {".", "-", "%", "a"}

RawValues == UNION {[1..n -> RawChars] : n \in 0..MaxRawLen}

\* resolveLoggerEnv({ env })
ResolveLoggerEnv ==
  /\ res.op = "init"
  /\ res' = Result("resolveLoggerEnv", "none", resolveLoggerEnv(res.arg),
                   res.arg)
  /\ UNCHANGED <<heap, active, stack, queue, scopes, lastWrite, snaps, steps,
                 pending, logger, sent, done, childLogger, invoked, timer>>

\* SpecEnv: the resolution of every environment in which LOG_SAMPLE_RATE
\* is unset or is a text of up to MaxRawLen characters
InitEnv ==
  /\ heap = InitHeap
  /\ active = NoStore
  /\ stack = <<>>
  /\ queue = {}
  /\ \E raw \in RawValues \cup {Unset} :
       res = Result("init", "none", Undef,
                    [LOG_SAMPLE_RATE |-> raw, LOGGER_SAMPLE_RATE |-> Unset])
  /\ scopes = <<>>
  /\ lastWrite = NoWrite
  /\ snaps = {}
  /\ pending = {}
  /\ sent = <<>>
  /\ done = <<>>
  /\ childLogger = NoLogger
  /\ invoked = <<>>
  /\ timer = NoTimer
  /\ steps = 0
  /\ logger = NoLogger

NextEnv == ResolveLoggerEnv

SpecEnv == InitEnv /\ [][NextEnv]_vars

\* the options given to createLogger in SpecTimer
TimerOptions ==
  { [timestamp |-> FALSE, includePid |-> FALSE],
    [level |-> "debug", timestamp |-> FALSE],
    [redactDefaults |-> FALSE, context |-> FALSE, timestamp |-> FALSE] }

\* SpecTimer: timers started at several levels and ended with and without
\* a message and data, inside and outside a scope
InitTimer ==
  /\ heap = InitHeap
  /\ active = NoStore
  /\ stack = <<>>
  /\ queue = {}
  /\ res = Result("init", "none", Undef, Undef)
  /\ scopes = <<>>
  /\ lastWrite = NoWrite
  /\ snaps = {}
  /\ pending = {}
  /\ sent = <<>>
  /\ done = <<>>
  /\ childLogger = NoLogger
  /\ invoked = <<>>
  /\ timer = NoTimer
  /\ steps = MaxTimerSteps
  /\ logger \in {Logger(o) : o \in TimerOptions}

NextTimer ==
  \/ StartTask
  \/ RunLiteral(1, {[k \in {"a"} |-> Num(0)]})
  \/ Return
  \/ StartTimer({"debug", "info", "error"})
  \/ End({Undef, Str("done")}, {Undef, Ref(OptsAddr), Ref(Opts2Addr)}, {0})

SpecTimer == InitTimer /\ [][NextTimer]_vars

\* work that returns 1
WorkOk == [threw |-> FALSE, val |-> Num(1)]

\* SpecAppend: measure calls in append mode on one key, made in scopes, by
\* their continuations and outside any scope, with synchronous and
\* asynchronous work started and completed in any interleaving
InitAppend ==
  /\ InitState
  /\ steps = MaxAppend

NextAppend ==
  \/ StartTask
  \/ RunLiteral(MaxAppendScopes, {[k \in {"a"} |-> Num(1)]})
  \/ Return
  \/ Register
  \/ Resume
  \/ MeasureSync({WorkOk}, {"perf"}, {"append"})
  \/ MeasureAsync({"perf"}, {"append"})
  \/ Settle({WorkOk})

SpecAppend == InitAppend /\ [][NextAppend]_vars

\* ------------------------------------------------------------- properties
\* the content of a value at every depth: a reference is replaced by the
\* content of the object or array it leads to
RECURSIVE Deep(_, _, _)
Deep(h, v, d) ==
  IF ~IsRef(v) \/ d = 0 THEN v
  ELSE LET c == h[v[2]]
       IN IF c.kind = "arr"
          THEN <<"arr", [i \in DOMAIN c.items |-> Deep(h, c.items[i], d - 1)]>>
          ELSE <<"obj", [k \in DOMAIN c.props |-> Deep(h, c.props[k], d - 1)]>>

\* what a read through the store at address s can observe
Content(h, s) == Deep(h, Ref(s), 3)

ScopeIds == 1..Len(scopes)

\* the scopes that still have code to run: a callback on the call stack or
\* a continuation waiting to be resumed
LiveScopes ==
  ({stack[i].scope : i \in DOMAIN stack} \cup {c.scope : c \in queue}) \ {0}

\* C1: scope isolation.  No step taken by code of one scope changes what the
\* code of another scope, still to run, can observe through its store,
\* whatever object or seed each scope was created with.
C1_ScopeIsolation ==
  [][\A s \in LiveScopes :
       s # Cur => Content(heap', scopes[s].store) = Content(heap, scopes[s].store)]_vars

\* C2: derived-scope isolation.  No step taken by code of a scope created by
\* Context.runWith changes the content, at any depth, of the store of the
\* scope it was derived from.
C2_DerivedIsolation ==
  [][(Cur # 0 /\ scopes[Cur].kind = "runWith" /\ scopes[Cur].parent # 0) =>
       LET p == scopes[scopes[Cur].parent].store
       IN Content(heap', p) = Content(heap, p)]_vars

C4_RunWithMerge ==
  res.op = "runWith" =>
    LET parent == Top.saved
        overlay == res.arg
        base == IF parent = NoStore THEN NoProps ELSE heap[parent].props
        derived == heap[active].props
    IN /\ active # NoStore
       /\ active # parent
       /\ DOMAIN derived = (DOMAIN base) \cup (DOMAIN overlay)
       /\ \A k \in DOMAIN derived :
            derived[k] = IF k \in DOMAIN overlay THEN overlay[k] ELSE base[k]
       /\ parent = NoStore => derived = overlay

\* a child whose overlay replaces one key of the parent and adds another,
\* while a third key comes from the parent
C4_Witness ==
  /\ res.op = "runWith"
  /\ Top.saved # NoStore
  /\ (DOMAIN heap[Top.saved].props) \cap (DOMAIN res.arg) # {}
  /\ (DOMAIN heap[Top.saved].props) \ (DOMAIN res.arg) # {}
  /\ (DOMAIN res.arg) \ (DOMAIN heap[Top.saved].props) # {}

\* C5: Context.run(store, cb) runs cb with a store in which getValue(k) is v
\* for every pair k, v of the initial store, and returns cb's result;
\* Context.run(cb) runs cb with a store that is present and has no keys.
C5_Run ==
  /\ res.op = "run" /\ res.err = "none" =>
       /\ getStore(active) # Undef
       /\ \A k \in DOMAIN res.arg :
            getValue(heap, active, k, Fallback) = res.arg[k]
  /\ res.op = "runCallback" =>
       /\ getStore(active) # Undef
       /\ heap[active].kind = "obj"
       /\ DOMAIN heap[active].props = {}
  /\ res.op = "return" /\ res.arg[1] = "run" => res.ret = res.arg[2]

\* a run whose initial store holds a key with the value undefined
C5_Witness ==
  /\ res.op = "run"
  /\ res.err = "none"
  /\ "a" \in DOMAIN res.arg
  /\ res.arg["a"] = Undef

\* C6: with no scope active getStore() and snapshot() return undefined,
\* has(k) is false, getValue(k, fallback) returns the fallback, and
\* requireStore, requireValue, addValue, addObjectValue, addOptions,
\* setDefault, reset, remove and safeRemove fail with NoActiveScope.
RequiringOps ==
  {"requireStore", "requireValue", "addValue", "addObjectValue", "addOptions",
   "setDefault", "reset", "remove", "safeRemove"}

C6_NoScope ==
  (Running /\ active = NoStore) =>
    /\ res.op \in {"getStore", "snapshot"} => res.err = "none" /\ res.ret = Undef
    /\ res.op = "has" => res.ret = Bool(FALSE)
    /\ res.op = "getValue" => res.ret = Fallback
    /\ res.op \in RequiringOps => res.err = "NoActiveScope"

\* addOptions called outside any scope, after a scope has ended
C6_Witness ==
  /\ Running
  /\ active = NoStore
  /\ Len(scopes) = 1
  /\ res.op = "addOptions"

Failures ==
  {"NoActiveScope", "MissingValue", "KeyNotObject", "RemovalNotFound",
   "MissingCallback"}

\* C7: inside a scope, requireValue of an absent key fails with MissingValue,
\* safeRemove of an absent key with RemovalNotFound, addOptions on a key
\* holding a scalar, null or an array with KeyNotObject, Context.run without
\* a callback with MissingCallback; and a call that fails changes neither
\* the heap nor the active store nor the scopes.
C7_FailStep ==
  /\ res'.err \in Failures =>
       /\ heap' = heap
       /\ active' = active
       /\ stack' = stack
       /\ scopes' = scopes
  /\ active # NoStore =>
       /\ (res'.op = "requireValue" /\ ~Own(heap, active, res'.arg)) =>
            res'.err = "MissingValue"
       /\ (res'.op = "safeRemove" /\ ~Own(heap, active, res'.arg)) =>
            res'.err = "RemovalNotFound"
       /\ (res'.op = "addOptions"
             /\ Get(heap, active, res'.arg[2]) # Undef
             /\ ~IsPlainObject(heap, Get(heap, active, res'.arg[2]))) =>
            res'.err = "KeyNotObject"
  /\ (res'.op = "run" /\ stack' = stack) => res'.err = "MissingCallback"

C7_Failures == [][C7_FailStep]_vars

\* addOptions has failed on a key that holds an array
C7_Witness ==
  /\ res.op = "addOptions"
  /\ res.err = "KeyNotObject"
  /\ IsArray(heap, Get(heap, active, res.arg[2]))

\* C8: presence of a key is own-property membership.  In a scope, has(k) is
\* true exactly when the store owns k; getValue(k, fallback) and
\* requireValue(k) give the stored value of an owned key, undefined included,
\* and the fallback or MissingValue otherwise; setDefault(k, v) on an owned
\* key changes nothing and returns the stored value, undefined included, and
\* on an absent key stores v and returns v.
C8_PresenceStep ==
  active # NoStore =>
    /\ res'.op = "has" => res'.ret = Bool(res'.arg \in DOMAIN heap[active].props)
    /\ res'.op = "getValue" =>
         res'.ret = IF res'.arg \in DOMAIN heap[active].props
                    THEN heap[active].props[res'.arg] ELSE Fallback
    /\ res'.op = "requireValue" =>
         IF res'.arg \in DOMAIN heap[active].props
         THEN res'.err = "none" /\ res'.ret = heap[active].props[res'.arg]
         ELSE res'.err = "MissingValue"
    /\ res'.op = "setDefault" =>
         LET k == res'.arg[1]
             v == res'.arg[2]
         IN /\ res'.err = "none"
            /\ IF k \in DOMAIN heap[active].props
               THEN heap' = heap /\ res'.ret = heap[active].props[k]
               ELSE /\ res'.ret = v
                    /\ DOMAIN heap'[active].props =
                         (DOMAIN heap[active].props) \cup {k}
                    /\ heap'[active].props[k] = v
                    /\ \A j \in DOMAIN heap[active].props :
                         heap'[active].props[j] = heap[active].props[j]

C8_Presence == [][C8_PresenceStep]_vars

\* setDefault was called with a value on a key stored with the value
\* undefined, and returned undefined
C8_Witness ==
  /\ res.op = "setDefault"
  /\ res.arg[2] = Num(1)
  /\ res.ret = Undef
  /\ active # NoStore
  /\ Own(heap, active, res.arg[1])

\* C9: addOptions(options, key) in a scope.  When the store holds nothing at
\* key, it gets there a new object with the content of options; when it holds
\* a non-array object, that same object gets the keys of options, options
\* winning, its other keys kept; when it holds anything else the call fails
\* with KeyNotObject and changes nothing.  The other keys of the store are
\* unchanged, and the caller's options objects never change.
C9_AddOptionsStep ==
  /\ heap'[OptsAddr] = heap[OptsAddr]
  /\ heap'[Opts2Addr] = heap[Opts2Addr]
  /\ (res'.op = "addOptions" /\ active # NoStore) =>
       LET options == res'.arg[1]
           key == res'.arg[2]
           store == heap[active].props
           existing == Get(heap, active, key)
       IN /\ \A j \in (DOMAIN store) \ {key} :
               j \in DOMAIN heap'[active].props /\ heap'[active].props[j] = store[j]
          /\ DOMAIN heap'[active].props \subseteq (DOMAIN store) \cup {key}
          /\ IF existing = Undef
             THEN /\ res'.err = "none"
                  /\ \E n \in FreeAddrs(heap) :
                       /\ heap'[active].props[key] = Ref(n)
                       /\ heap'[n] = ObjCell(heap[options].props)
                       /\ \A a \in Addr \ {n, active} : heap'[a] = heap[a]
             ELSE IF IsPlainObject(heap, existing)
             THEN LET b == existing[2]
                  IN /\ res'.err = "none"
                     /\ heap'[active] = heap[active]
                     /\ DOMAIN heap'[b].props =
                          (DOMAIN heap[b].props) \cup (DOMAIN heap[options].props)
                     /\ \A k \in DOMAIN heap'[b].props :
                          heap'[b].props[k] =
                            IF k \in DOMAIN heap[options].props
                            THEN heap[options].props[k] ELSE heap[b].props[k]
                     /\ \A a \in Addr \ {b} : heap'[a] = heap[a]
             ELSE res'.err = "KeyNotObject" /\ heap' = heap

C9_AddOptions == [][C9_AddOptionsStep]_vars

\* the bag created from one options object has been merged with another:
\* it holds a key of its own and a key the second options object replaced
C9_Witness ==
  /\ res.op = "addOptions"
  /\ res.err = "none"
  /\ res.arg[1] = OptsAddr
  /\ active # NoStore
  /\ IsPlainObject(heap, Get(heap, active, "options"))
  /\ heap[Get(heap, active, "options")[2]].props = [k \in {"x", "y"} |-> IF k = "x" THEN Num(1) ELSE Num(2)]

WritingOps ==
  {"addValue", "addObjectValue", "addOptions", "setDefault", "remove",
   "safeRemove", "reset", "measure"}

\* C10: in a scope, snapshot() returns a new object, different from the
\* store, with the store's keys and values; no later operation on the store
\* changes a snapshot, and an assignment to a snapshot changes no store;
\* reset() leaves the same store active, with no keys.
C10_SnapshotStep ==
  /\ (res'.op = "snapshot" /\ active # NoStore) =>
       /\ IsRef(res'.ret)
       /\ res'.ret[2] # active
       /\ res'.ret[2] \in FreeAddrs(heap)
       /\ heap'[res'.ret[2]] = ObjCell(heap[active].props)
       /\ heap'[active] = heap[active]
  /\ res'.op \in WritingOps => \A n \in snaps : heap'[n] = heap[n]
  /\ res'.op = "writeSnapshot" =>
       \A s \in ScopeIds : heap'[scopes[s].store] = heap[scopes[s].store]
  /\ (res'.op = "reset" /\ active # NoStore) =>
       /\ res'.err = "none"
       /\ getStore(active') = Ref(active)
       /\ res'.ret = Ref(active)
       /\ heap'[active].kind = "obj"
       /\ DOMAIN heap'[active].props = {}

C10_Snapshot == [][C10_SnapshotStep]_vars

\* the store was reset after a snapshot with keys was taken of it
C10_Witness ==
  /\ res.op = "reset"
  /\ res.err = "none"
  /\ \E n \in snaps : DOMAIN heap[n].props # {}

\* a measure call whose work has completed in this step, in a scope
MeasureDone ==
  /\ res'.op \in {"measureSync", "measureSettled"}
  /\ res'.arg.call.store # NoStore

\* v is an entry of the call named name
IsEntryOf(v, name) == v[1] = "entry" /\ v[2] = name

\* C11: recording rule of Context.measure.  With mode "overwrite" the store
\* holds the new entry at key afterwards, whatever it held.  With mode
\* "append": a list at key gets the entry pushed at its end; a key that
\* holds nothing gets a new one-element list; any other value at key is
\* replaced by the two-element list [previous value, entry].  No other key
\* of the store changes.
C11_RecordStep ==
  MeasureDone =>
    LET call == res'.arg.call
        s == call.store
        existing == Get(heap, s, call.key)
        now == Get(heap', s, call.key)
    IN /\ DOMAIN heap'[s].props = (DOMAIN heap[s].props) \cup {call.key}
       /\ \A j \in (DOMAIN heap[s].props) \ {call.key} :
            heap'[s].props[j] = heap[s].props[j]
       /\ IF call.mode = "overwrite" THEN IsEntryOf(now, call.name)
          ELSE IF IsArray(heap, existing)
          THEN LET old == heap[existing[2]].items
                   new == heap'[existing[2]].items
               IN /\ now = existing
                  /\ Len(new) = Len(old) + 1
                  /\ SubSeq(new, 1, Len(old)) = old
                  /\ IsEntryOf(new[Len(new)], call.name)
          ELSE /\ IsArray(heap', now)
               /\ now[2] \in FreeAddrs(heap)
               /\ LET new == heap'[now[2]].items
                  IN IF existing = Undef
                     THEN Len(new) = 1 /\ IsEntryOf(new[1], call.name)
                     ELSE /\ Len(new) = 2
                          /\ new[1] = existing
                          /\ IsEntryOf(new[2], call.name)

C11_Record == [][C11_RecordStep]_vars

\* an append has converted the number the key held into a list of two, and
\* a later append has just pushed a third element
C11_Witness ==
  /\ res.op \in {"measureSync", "measureSettled"}
  /\ res.arg.call.store # NoStore
  /\ res.arg.call.mode = "append"
  /\ LET now == Get(heap, res.arg.call.store, "perf")
     IN /\ IsArray(heap, now)
        /\ Len(heap[now[2]].items) = 3
        /\ heap[now[2]].items[1] = Num(5)
        /\ IsEntryOf(heap[now[2]].items[3], res.arg.call.name)

\* the names of the calls of a sequence of calls
Names(calls) == [i \in DOMAIN calls |-> calls[i].name]

\* the names of the entries a list holds, in the order of the list
EntryNames(items) ==
  LET entries == SelectSeq(items, LAMBDA v : v[1] = "entry")
  IN [i \in DOMAIN entries |-> entries[i][2]]

\* the calls made in scope sc whose work has completed, in completion order
Completed(sc) == SelectSeq(done, LAMBDA c : c.scope = sc)

Recorded(call) ==
  LET now == Get(heap, call.store, call.key)
  IN IF call.mode = "overwrite" THEN now
     ELSE heap[now[2]].items[Len(heap[now[2]].items)]

\* C13: when the work of a measure call made in a scope has just completed:
\* if the work failed (threw, or its promise rejected), whatever the value
\* it failed with, the entry recorded for the call carries an error
\* descriptor and the caller gets the same failure with the same value; if
\* the work succeeded the caller gets the work's value and the entry
\* carries no error.
C13_ErrorRecorded ==
  (res.op \in {"measureSync", "measureSettled"}
     /\ res.arg.call.store # NoStore) =>
    LET call == res.arg.call
        work == res.arg.work
        entry == Recorded(call)
    IN /\ IsEntryOf(entry, call.name)
       /\ res.ret = work.val
       /\ IF work.threw
          THEN res.err \in {"thrown", "rejected"} /\ entry[3] = 1
          ELSE res.err = "none" /\ entry[3] = 0

\* the numeric value the spec gives each level
LevelRank(l) ==
  CASE l = "trace" -> 10 [] l = "debug" -> 20 [] l = "info" -> 30
    [] l = "warn" -> 40 [] l = "error" -> 50 [] l = "fatal" -> 60

\* this step is a log call that hands an entry to the transport
Emits == res'.op = "log" /\ sent' # sent

\* C14: level filtering.  A log call at level L on a logger whose current
\* minimum is M hands an entry to the transport only if value(L) >=
\* value(M); on a logger that does not sample, it hands over exactly one
\* entry, of level L, if value(L) >= value(M), and none otherwise.  The
\* minimum is the level of the last setLevel: setLevel(M2) makes M2 the
\* minimum that the next calls are decided with.
C14_LevelStep ==
  /\ res'.op = "setLevel" => logger'.level = res'.arg
  /\ res'.op = "log" =>
       LET L == res'.arg.level
           M == logger.level
       IN /\ Emits => LevelRank(L) >= LevelRank(M)
          /\ logger.sampleRate = SampleOne =>
               IF LevelRank(L) >= LevelRank(M)
               THEN /\ Len(sent') = Len(sent) + 1
                    /\ SubSeq(sent', 1, Len(sent)) = sent
                    /\ sent'[Len(sent')][2].level = Str(L)
                    /\ sent'[Len(sent')][2].levelValue = Num(LevelRank(L))
               ELSE sent' = sent

C14_LevelFilter == [][C14_LevelStep]_vars

\* a logger whose minimum was raised to "error" by setLevel after it had
\* emitted an info entry has just received info, and has emitted nothing
C14_Witness ==
  /\ res.op = "log"
  /\ res.arg.level = "info"
  /\ logger.level = "error"
  /\ logger.sampleRate = SampleOne
  /\ Len(sent) = 1
  /\ sent[1][2].level = Str("info")

\* C15: sampling.  For a log call at an enabled level and whatever the
\* random draw: a logger with sampleRate 0 hands no entry to the transport
\* and a logger with sampleRate 1 hands one over; with a rate strictly
\* between 0 and 1 the entry is dropped exactly when the draw exceeds the
\* rate.
C15_SamplingStep ==
  (res'.op = "log" /\ LevelRank(res'.arg.level) >= LevelRank(logger.level)) =>
    LET rate == logger.sampleRate
        dropped == sent' = sent
    IN /\ rate = 0 => dropped
       /\ rate = SampleOne => ~dropped
       /\ (0 < rate /\ rate < SampleOne) => (dropped <=> res'.arg.draw > rate)

C15_Sampling == [][C15_SamplingStep]_vars

\* a log call has just handed an entry to the transport
Delivered == res.op = "log" /\ res.ret = Bool(TRUE)

\* the fields of the entry last handed to the transport
LastEntry == sent[Len(sent)][2]

\* entry[k], undefined when the entry has no such field
Field(e, k) == IF k \in DOMAIN e THEN e[k] ELSE Undef

\* the logger redacts nothing
NoRedaction ==
  /\ ~logger.redactDefaults
  /\ logger.redactFieldNames = {}
  /\ logger.redactKeys = <<>>

\* the entry has message m, the data bag made of x and the error made of y
\* (no message, data or error where m, x or y is undefined)
Carries(e, m, x, y) ==
  /\ Field(e, "message") = m
  /\ Field(e, "data") = normalizeData(heap, x)
  /\ Field(e, "error") = serializeError(heap, y)

\* C16: argument dispatch when the first argument is a string or an Error.
\* (string, Error, x): message the string, error the Error, data x.
\* (string, x, y), x not an Error: message the string, data x, error y.
\* (Error, string, x): error the Error, message the string, data x.
\* (Error, x), x not a string: error the Error, data x, no message.
C16_Dispatch ==
  (Delivered /\ NoRedaction /\ Len(res.arg.args) > 0
     /\ res.arg.args[1][1] \in {"str", "error"}) =>
    LET first == Arg(res.arg.args, 1)
        second == Arg(res.arg.args, 2)
        third == Arg(res.arg.args, 3)
    IN IF first[1] = "str"
       THEN IF second[1] = "error"
            THEN Carries(LastEntry, first, third, second)
            ELSE Carries(LastEntry, first, second, third)
       ELSE IF second[1] = "str"
            THEN Carries(LastEntry, second, third, first)
            ELSE Carries(LastEntry, Undef, second, first)

\* log("m", new Error("boom"), {id: 1, ...}) has been delivered with the
\* three parts
C16_Witness ==
  /\ Delivered
  /\ NoRedaction
  /\ res.arg.args = <<Str("m"), Err("boom"), Ref(DataAddr)>>
  /\ LastEntry.message = Str("m")
  /\ LastEntry.error[2].message = Str("boom")
  /\ LastEntry.data[2].id = Num(1)

\* C17: argument dispatch when the first argument is neither a string nor
\* an Error.  The first argument is the data; a string in second position
\* is the message; for (data, string, Error) the error is the Error, and
\* for (data, Error, string) the error is the Error and the message is the
\* string.
C17_DataFirst ==
  (Delivered /\ NoRedaction /\ Len(res.arg.args) > 0
     /\ res.arg.args[1][1] \notin {"str", "error"}) =>
    LET first == Arg(res.arg.args, 1)
        second == Arg(res.arg.args, 2)
        third == Arg(res.arg.args, 3)
    IN /\ Field(LastEntry, "data") = normalizeData(heap, first)
       /\ second[1] = "str" => Field(LastEntry, "message") = second
       /\ (second[1] = "str" /\ third[1] = "error") =>
            Field(LastEntry, "error") = serializeError(heap, third)
       /\ (second[1] = "error" /\ third[1] = "str") =>
            /\ Field(LastEntry, "error") = serializeError(heap, second)
            /\ Field(LastEntry, "message") = third

\* a key name lower-cased and stripped of its non-alphanumeric characters,
\* for the names that occur as keys or as configured names
Canon(k) ==
  CASE k = "Pwd" -> "pwd" [] k = "p-wd" -> "pwd" [] k = "PIN" -> "pin"
    [] k = "levelValue" -> "levelvalue" [] k = "instance_id" -> "instanceid"
    [] k = "__" -> "" [] k = "duration_ms" -> "durationms" [] OTHER -> k

\* the built-in sensitive names, in that form
SensitiveBuiltIn ==
  { "password", "pass", "pwd", "secret", "token", "accesstoken",
    "refreshtoken", "idtoken", "authorization", "cookie", "setcookie",
    "session", "sessionid", "apikey", "xapikey", "clientsecret",
    "privatekey", "signature", "jwt", "bearer", "csrf", "xsrf" }

\* the key is redacted by name on this logger
Sensitive(k) ==
  \/ logger.redactDefaults /\ Canon(k) \in SensitiveBuiltIn
  \/ \E n \in logger.redactFieldNames : Canon(n) # "" /\ Canon(k) = Canon(n)

\* post is pre with the value of every sensitive key, at any depth,
\* replaced by the placeholder and everything else as it was
RECURSIVE Masked(_, _)
Masked(pre, post) ==
  IF pre[1] = "obj"
  THEN /\ post[1] = "obj"
       /\ DOMAIN post[2] = DOMAIN pre[2]
       /\ \A k \in DOMAIN pre[2] :
            IF Sensitive(k) THEN post[2][k] = logger.redactPlaceholder
            ELSE Masked(pre[2][k], post[2][k])
  ELSE IF pre[1] = "arr"
  THEN /\ post[1] = "arr"
       /\ Len(post[2]) = Len(pre[2])
       /\ \A i \in DOMAIN pre[2] : Masked(pre[2][i], post[2][i])
  ELSE post = pre

\* the entry of the last log call as it is before redaction
Unredacted == assemble(heap, active, logger, res.arg.level, res.arg.args)

\* C18: name-based redaction.  In every entry handed to the transport by a
\* logger with name-based redaction on (and no path-based redaction), every
\* key at any depth, in data, error, bindings and the attached context,
\* inside objects and inside arrays, whose name lower-cased and stripped of
\* non-alphanumeric characters is a built-in sensitive name or a configured
\* one has the placeholder as value, and every other key has the value it
\* has in the normalized entry.
C18_NameRedaction ==
  (Delivered /\ logger.redactKeys = <<>>
     /\ (logger.redactDefaults \/ logger.redactFieldNames # {})) =>
    Masked(Unredacted, sent[Len(sent)])

\* an entry has been delivered in which a key is masked in the data, in an
\* object inside an array of the data, under a name written with a
\* separator, in the bindings and in the context, and the other keys are
\* not
C18_Witness ==
  /\ Delivered
  /\ active # NoStore
  /\ res.arg.args = <<Ref(DataAddr)>>
  /\ {"data", "bindings", "context"} \subseteq DOMAIN LastEntry
  /\ logger.redactDefaults
  /\ LastEntry.data[2].pwd = DEFAULT_REDACT_PLACEHOLDER
  /\ LastEntry.data[2].items[2][1][2].pwd = DEFAULT_REDACT_PLACEHOLDER
  /\ LastEntry.data[2].items[2][1][2].id = Num(2)
  /\ LastEntry.data[2].nested[2]["p-wd"] = DEFAULT_REDACT_PLACEHOLDER
  /\ LastEntry.data[2].nested[2].PIN = Str("s")
  /\ LastEntry.bindings[2].pwd = DEFAULT_REDACT_PLACEHOLDER
  /\ LastEntry.context[2].pwd = DEFAULT_REDACT_PLACEHOLDER
  /\ LastEntry.context[2].a = Num(1)

\* the path segment that names the element of index i - 1 of an array
IndexName(i) == CASE i = 1 -> "0" [] i = 2 -> "1" [] i = 3 -> "2" [] OTHER -> "?"

\* post is pre with the values at the end of the paths that match parts
\* replaced by the placeholder and nothing else changed: the keys of every
\* object and the length of every array are the same
RECURSIVE OnlyPath(_, _, _)
OnlyPath(pre, post, parts) ==
  IF parts = <<>> THEN post = logger.redactPlaceholder
  ELSE IF pre[1] = "obj"
  THEN /\ post[1] = "obj"
       /\ DOMAIN post[2] = DOMAIN pre[2]
       /\ \A k \in DOMAIN pre[2] :
            IF Head(parts) \in {"*", k}
            THEN OnlyPath(pre[2][k], post[2][k], Tail(parts))
            ELSE post[2][k] = pre[2][k]
  ELSE IF pre[1] = "arr"
  THEN /\ post[1] = "arr"
       /\ Len(post[2]) = Len(pre[2])
       /\ \A i \in DOMAIN pre[2] :
            IF Head(parts) \in {"*", IndexName(i)}
            THEN OnlyPath(pre[2][i], post[2][i], Tail(parts))
            ELSE post[2][i] = pre[2][i]
  ELSE post = pre

\* C19: path-based redaction.  In every entry handed to the transport by a
\* logger with one redactKeys path (of non-empty segments) and no
\* name-based redaction, every value at the end of a path that matches,
\* `*` standing for every key or index, is the placeholder, and every other
\* part of the entry is as before redaction, the set of keys of every
\* object included, also when a segment names a key that is not there.
C19_PathFrame ==
  (Delivered /\ ~logger.redactDefaults /\ logger.redactFieldNames = {}
     /\ Len(logger.redactKeys) = 1
     /\ \A i \in DOMAIN logger.redactKeys[1] : logger.redactKeys[1][i] # "") =>
    OnlyPath(Unredacted, sent[Len(sent)], logger.redactKeys[1])

\* the store of the scope the running code belongs to
CallerStore == IF Cur = 0 THEN NoStore ELSE scopes[Cur].store

\* the normalized content of the caller's store, restricted to the
\* allow-listed keys the store owns when the logger has an allow-list
Attached ==
  LET all == Content(heap, CallerStore)
  IN IF logger.contextKeys = {} THEN all
     ELSE <<"obj", [k \in logger.contextKeys \cap DOMAIN all[2] |-> all[2][k]]>>

\* a normalized value with the value of every sensitive key replaced by
\* the placeholder
RECURSIVE MaskOf(_)
MaskOf(v) ==
  IF v[1] = "obj"
  THEN <<"obj", [k \in DOMAIN v[2] |->
                   IF Sensitive(k) THEN logger.redactPlaceholder
                   ELSE MaskOf(v[2][k])]>>
  ELSE IF v[1] = "arr"
  THEN <<"arr", [i \in DOMAIN v[2] |-> MaskOf(v[2][i])]>>
  ELSE v

\* C20 as stated: when the context option is on and a scope is active at
\* the log call, the entry carries under the context field name the
\* normalized content of the store of the calling code's scope, restricted
\* to the allow-listed keys the store owns when there is an allow-list;
\* otherwise the entry has no context field; the call does not fail.
C20_ContextAsStated ==
  Delivered =>
    /\ res.err = "none"
    /\ IF logger.context /\ CallerStore # NoStore
       THEN Field(LastEntry, logger.contextKey) = Attached
       ELSE logger.contextKey \notin DOMAIN LastEntry

\* C20, amended: on a logger without redaction paths, the context field
\* holds the normalized content of the store of the calling code's scope,
\* restricted to the allow-list, in which the value of every key the logger
\* redacts by name is replaced by the placeholder; the field is the
\* placeholder itself when its own name is one the logger redacts.
C20_Context ==
  Delivered /\ logger.redactKeys = <<>> =>
    /\ res.err = "none"
    /\ IF logger.context /\ CallerStore # NoStore
       THEN Field(LastEntry, logger.contextKey) =
              IF Sensitive(logger.contextKey) THEN logger.redactPlaceholder
              ELSE MaskOf(Attached)
       ELSE logger.contextKey \notin DOMAIN LastEntry

\* the code of the first scope, after a scope nested in it was created,
\* written and left, has logged on a logger with an allow-list: the entry
\* carries the one allow-listed key its store owns, with the value it has
\* in the first scope
C20_Witness ==
  /\ Delivered
  /\ Cur = 1
  /\ Len(scopes) = 2
  /\ logger.contextKey = "ctx"
  /\ "pwd" \in DOMAIN heap[scopes[1].store].props
  /\ Get(heap, scopes[2].store, "a") = Num(2)
  /\ Field(LastEntry, "ctx") = <<"obj", [k \in {"a"} |-> Num(0)]>>

\* a performance entry of the call named name is held somewhere in the heap
EntryAnywhere(h, name) ==
  \E a \in Addr :
    \/ \E k \in DOMAIN h[a].props : IsEntryOf(h[a].props[k], name)
    \/ \E i \in DOMAIN h[a].items : IsEntryOf(h[a].items[i], name)

\* the measure calls made with no store active
Unscoped == {i \in DOMAIN done : done[i].store = NoStore}

\* C30: Context.measure called with no scope active does not fail with
\* NoActiveScope: the caller gets the work's result, or its failure; the
\* call changes no object, creates no store and no scope, and no entry for
\* it is ever found in a store, those of later scopes included.
C30_UnscopedStep ==
  /\ res'.op \in {"measureSync", "measureAsync", "measureSettled"}
       /\ res'.arg.call.store = NoStore
     => /\ heap' = heap
        /\ scopes' = scopes
        /\ active' = active
        /\ res'.err # "NoActiveScope"
        /\ res'.op # "measureAsync"
             => /\ res'.ret = res'.arg.work.val
                /\ (res'.err = "none") = ~res'.arg.work.threw
  /\ \A i \in DOMAIN done' :
       done'[i].store = NoStore => ~EntryAnywhere(heap', done'[i].name)

C30_Unscoped == [][C30_UnscopedStep]_vars

\* the first measure call was made outside any scope; a scope was created
\* afterwards and a call made inside it has recorded
\* its own entry, the only one there is
C30_Witness ==
  /\ Len(done) = 2
  /\ done[1].store = NoStore
  /\ done[2].store # NoStore
  /\ res.op = "measureSync"
  /\ EntryAnywhere(heap, done[2].name)
  /\ ~EntryAnywhere(heap, done[1].name)

\* the store enterWith has installed for the running code, NoStore if none
Entered == IF Running THEN Top.entered ELSE NoStore

\* C27: Context.enterWith(s) makes s the active store for the rest of the
\* callback in which it is called and for the continuations registered from
\* that point on: getStore() returns s there, a write goes to s and changes
\* no other object, the store active before included; enterWith itself
\* creates no scope and no callback frame and changes no existing object.
C27_EnterWithStep ==
  /\ res'.op = "enterWith"
       => /\ scopes' = scopes
          /\ Len(stack') = Len(stack)
          /\ Cur' = Cur
          /\ Entered' \notin {NoStore, active}
          /\ heap'[Entered'].props = res'.arg
          /\ \A a \in Addr \ {Entered'} : heap'[a] = heap[a]
  /\ Entered' # NoStore => active' = Entered'
  /\ res'.op = "getStore" /\ Entered # NoStore => res'.ret = Ref(Entered)
  /\ res'.op = "addValue" /\ Entered # NoStore
       => /\ Get(heap', Entered, res'.arg[1]) = res'.arg[2]
          /\ \A a \in Addr \ {Entered} : heap'[a] = heap[a]
  /\ res'.op = "register" /\ Entered # NoStore
       => \E c \in queue' : c.store = Entered /\ c.scope = Cur

C27_EnterWith == [][C27_EnterWithStep]_vars

\* the code of a scope called enterWith, wrote a value and registered a
\* continuation; the continuation has just been resumed: the store
\* enterWith installed is active and holds the value, and the store of the
\* scope is as it was created
C27_Witness ==
  /\ res.op = "resume"
  /\ Cur = 1
  /\ Entered # NoStore
  /\ active = Entered
  /\ Entered # scopes[1].store
  /\ Get(heap, Entered, "a") = Num(5)
  /\ Get(heap, scopes[1].store, "a") = Num(0)

\* C28: a log call changes neither which store is active, nor the content
\* of the active store at any depth, nor the content of the values passed
\* as its arguments, nor the bindings of the logger.
C28_NoEffectStep ==
  res'.op = "log" =>
    /\ active' = active
    /\ active # NoStore => Content(heap', active) = Content(heap, active)
    /\ \A i \in DOMAIN res'.arg.args :
         Deep(heap', res'.arg.args[i], 3) = Deep(heap, res'.arg.args[i], 3)
    /\ logger'.bindings = logger.bindings

C28_NoEffect == [][C28_NoEffectStep]_vars

\* a log call made inside a scope has delivered an entry in which the
\* redaction has masked a field of the context and fields of the data, at
\* the top and inside an array; the store and the data object still hold
\* the values
C28_Witness ==
  /\ Delivered
  /\ active # NoStore
  /\ res.arg.args = <<Str("m"), Ref(DataAddr)>>
  /\ LastEntry.context[2].pwd = DEFAULT_REDACT_PLACEHOLDER
  /\ LastEntry.data[2].pwd = DEFAULT_REDACT_PLACEHOLDER
  /\ LastEntry.data[2].items[2][1][2].pwd = DEFAULT_REDACT_PLACEHOLDER
  /\ Get(heap, active, "pwd") = Str("s")
  /\ Get(heap, DataAddr, "pwd") = Str("s")
  /\ Get(heap, ItemAddr, "pwd") = Str("s")

\* the normal form of a value when a cycle is cut at the edge that closes
\* it: an object met again on the path from the root is "[Circular]", every
\* other object has its content, the cause of an Error included
RECURSIVE Unfold(_, _, _)
Unfold(h, v, path) ==
  IF ~IsRef(v) THEN v
  ELSE IF v[2] \in path THEN Str("[Circular]")
  ELSE LET c == h[v[2]]
           p == path \cup {v[2]}
       IN IF c.kind \in {"arr", "set"}
          THEN <<"arr", [i \in DOMAIN c.items |-> Unfold(h, c.items[i], p)]>>
          ELSE IF c.kind = "err"
          THEN <<"obj", [k \in {"name", "message", "stack", "cause"} |->
                           CASE k = "name" -> Str("Error")
                             [] k = "message" -> c.props.message
                             [] k = "stack" -> Str("stack")
                             [] k = "cause" -> Unfold(h, c.props.cause, p)]>>
          ELSE <<"obj", [k \in DOMAIN c.props |-> Unfold(h, c.props[k], p)]>>

\* the string m occurs in the tree v
RECURSIVE HasMarker(_, _)
HasMarker(v, m) ==
  \/ v = Str(m)
  \/ v[1] \in {"obj", "arr"} /\ \E k \in DOMAIN v[2] : HasMarker(v[2][k], m)

\* the number of objects and arrays nested in one another in the tree v
RECURSIVE Depth(_)
Depth(v) ==
  IF v[1] \notin {"obj", "arr"} THEN 0
  ELSE IF DOMAIN v[2] = {} THEN 1
  ELSE LET ds == {Depth(v[2][k]) : k \in DOMAIN v[2]}
       IN 1 + CHOOSE d \in ds : \A e \in ds : e <= d

\* the object a log call has received as its data: the only argument, or
\* the one after the message; 0 when there is none
DataObject ==
  LET args == res.arg.args
      last == args[Len(args)]
  IN IF res.op = "log" /\ args # <<>> /\ IsRef(last)
        /\ (Len(args) = 1 \/ args[1][1] = "str")
     THEN last[2] ELSE 0

\* C23: every log call returns without throwing and delivers its entry,
\* whatever object graph it is given as data or error, and when the graph
\* contains a cycle the entry has the marker "[Circular]".
C23_NeverThrows ==
  res.op = "log" =>
    /\ res.err = "none"
    /\ res.ret = Bool(TRUE)
    /\ DataObject # 0
         /\ HasMarker(Unfold(heap, Ref(DataObject), {}), "[Circular]")
         => HasMarker(sent[Len(sent)], "[Circular]")

\* C24: there is a bound on the depth of the data of a delivered entry: when
\* the data object is acyclic and nested deeper than the bound, the entry's
\* data is no deeper than the bound and has the marker "[MaxDepth]".
C24_MaxDepth ==
  Delivered /\ DataObject # 0 /\ heap[DataObject].kind = "obj"
    /\ ~HasMarker(Unfold(heap, Ref(DataObject), {}), "[Circular]")
  => \E bound \in 1..(MaxChain - 1) :
       /\ Depth(LastEntry.data) <= bound
       /\ Depth(Unfold(heap, Ref(DataObject), {})) > bound
            => HasMarker(LastEntry.data, "[MaxDepth]")

\* C29: the data of a delivered entry is the content of the data object
\* with "[Circular]" only where an edge leads back to an object on the path
\* from the root: an object referenced from two places has its full
\* content at both.
C29_OnlyBackEdges ==
  Delivered /\ DataObject # 0
    /\ heap[DataObject].kind \in {"obj", "map", "set"}
  => LastEntry.data = Unfold(heap, Ref(DataObject), {})

\* a timer closure has just delivered an entry
Ended == res.op = "end" /\ res.ret = Bool(TRUE)

\* C25: the entry a timer closure delivers has the level given to
\* startTimer, a numeric duration_ms at the top level of the entry, which
\* is the time between startTimer and the call of the closure, and the
\* fields of the caller's data under data.
C25_Timer ==
  Ended =>
    /\ LastEntry.level = Str(timer.level)
    /\ "duration_ms" \in DOMAIN LastEntry
    /\ LastEntry.duration_ms = Num(res.arg.now - timer.start)
    /\ res.arg.data # Undef =>
         /\ "data" \in DOMAIN LastEntry
         /\ \A k \in DOMAIN heap[res.arg.data[2]].props :
              /\ k \in DOMAIN LastEntry.data[2]
              /\ LastEntry.data[2][k] = heap[res.arg.data[2]].props[k]

\* the key is redacted by name on the logger lg
SensitiveOn(lg, k) ==
  \/ lg.redactDefaults /\ Canon(k) \in SensitiveBuiltIn
  \/ \E n \in lg.redactFieldNames : Canon(n) # "" /\ Canon(k) = Canon(n)

\* bindings as an entry of the logger lg shows them: the value of a key
\* that lg redacts by name is the placeholder
Shown(lg, bindings) ==
  <<"obj", [k \in DOMAIN bindings[2] |->
              IF SensitiveOn(lg, k) THEN lg.redactPlaceholder
              ELSE bindings[2][k]]>>

\* C21: logger.child(b, options) returns a logger whose bindings are the
\* parent's merged with b, b winning; it leaves the parent as it was; the
\* child has the parent's value of every option not given, and the parent's
\* transports unless transports, format or colors are given.  The child
\* stays as it was made whatever is done to the parent afterwards, and an
\* entry the child delivers carries the child's bindings and goes to the
\* child's transports.
C21_ChildStep ==
  /\ res'.op = "child" =>
       LET b == heap[res'.arg.bindings[2]].props
           options == res'.arg.options
       IN /\ childLogger'.bindings =
               <<"obj", [k \in DOMAIN logger.bindings[2] \cup DOMAIN b |->
                           IF k \in DOMAIN b THEN b[k]
                           ELSE logger.bindings[2][k]]>>
          /\ logger' = logger
          /\ \A k \in InheritedOptions \ DOMAIN options :
               childLogger'[k] = logger[k]
          /\ \A k \in InheritedOptions \cap DOMAIN options :
               childLogger'[k] = options[k]
          /\ DOMAIN options \cap {"transports", "format", "colors"} = {}
               => childLogger'.transports = logger.transports
  /\ childLogger # NoLogger => childLogger' = childLogger
  /\ logger'.bindings = logger.bindings
  /\ res'.op = "log" /\ res'.ret = Bool(TRUE) =>
       LET lg == IF res'.arg.by = "child" THEN childLogger ELSE logger
           entry == sent'[Len(sent')]
       IN /\ entry[2].bindings = Shown(lg, lg.bindings)
          /\ invoked' = invoked \o [i \in DOMAIN lg.transports |->
                                      [transport |-> lg.transports[i].id,
                                       entry |-> entry]]

C22_DeliveryStep ==
  res'.op = "log" =>
    IF res'.ret = Bool(TRUE)
    THEN invoked' = invoked \o [i \in DOMAIN logger.transports |->
                                  [transport |-> logger.transports[i].id,
                                   entry |-> sent'[Len(sent')]]]
    ELSE invoked' = invoked

C22_Delivery == [][C22_DeliveryStep]_vars

\* the text of LOG_SAMPLE_RATE in the environment that has been resolved
RawRate == res.arg.LOG_SAMPLE_RATE

\* C26: when LOG_SAMPLE_RATE is a text that parses as a number, the
\* resolution does not throw and yields a sampleRate between 0 and 1; for a
\* number above 1 it yields 1, for a number below 0 it yields 0, and in
\* both cases it reports a warning with the key LOG_SAMPLE_RATE.
C26_SampleRate ==
  res.op = "resolveLoggerEnv" /\ RawRate # Unset /\ RawRate # <<>>
    /\ Number(RawRate) # NaN
  => LET rate == res.ret.options.sampleRate
     IN /\ res.err = "none"
        /\ rate # NoNumber
        /\ rate.m >= 0 /\ AtMost(rate, 1)
        /\ GreaterThan(Number(RawRate), 1) =>
             rate = Dec(1, 0) /\ "LOG_SAMPLE_RATE" \in res.ret.warnings
        /\ Number(RawRate).m < 0 =>
             rate = Dec(0, 0) /\ "LOG_SAMPLE_RATE" \in res.ret.warnings
====
